---- MODULE Spec2Model ----
(***************************************************************************)
(* A model of the MBO order-book engine and its snapshot fan-out:          *)
(*   - MboOrderBook (mbo_order_book.cpp): the two price-ordered sides, the *)
(*     per-level FIFO lists and the order index, with apply() and its      *)
(*     helpers add_, cancel_, modify_, clear_;                             *)
(*   - the persistent-writer queue (tcp_main_ws.cpp): the bounded deque    *)
(*     between enqueue_snapshot_write and the writer thread;               *)
(*   - the snapshot store (snapshot_store.cpp): publish_snapshot and       *)
(*     load_snapshot under the shared mutex;                               *)
(*   - one push session (ws_server.cpp): WsSession's handlers.             *)
(* Each component has a specification of its own over the common state.    *)
(*                                                                         *)
(* List nodes are identified by their address.  Addresses are opaque to    *)
(* the program, so states are stored up to a renaming of the addresses     *)
(* (Canon): a live node's address is its rank in book order, and an        *)
(* iterator that refers to no live node is stored as Dangling.             *)
(***************************************************************************)
EXTENDS Integers, Sequences, FiniteSets, TLC

(***************************************************************************)
(* Bounds of the model.                                                    *)
(***************************************************************************)
MaxOrderId == 2

OrderIds == 1..MaxOrderId
\* Price keys in ticks: two, so that an order can stay at its price or move
\* to another one, on either side.
Prices == {1, 2}
\* Event sizes: zero (which the parser accepts, csv_parser.cpp:73), a
\* smaller and a larger quantity.
Sizes == {0, 1, 2}
\* Event actions: the seven known ones and one character outside them.
Actions == {"A", "C", "M", "R", "T", "F", "N", "X"}
\* Event sides: 'B', 'A' and a character that is neither.
Sides == {"B", "A", "N"}
Symbols == {"CLX5"}

Events == [action : Actions, side : Sides, price : Prices, size : Sizes,
           order_id : OrderIds]

\* An iterator that refers to no live list node.
Dangling == 0

VARIABLES
    symbol_,   \* MboOrderBook::symbol_
    bids_,     \* MboOrderBook::bids_  : price -> FIFO of list nodes
    asks_,     \* MboOrderBook::asks_  : price -> FIFO of list nodes
    index_     \* MboOrderBook::index_ : order id -> OrderRef

bookVars == <<symbol_, bids_, asks_, index_>>

(***************************************************************************)
(* Helpers on sets, sequences and maps.                                    *)
(***************************************************************************)
\* The price keys in std::greater and in std::less order.
PricesDescending == <<2, 1>>
PricesAscending == <<1, 2>>

EmptyMap == [k \in {} |-> 0]
MapErase(m, k) == [x \in (DOMAIN m) \ {k} |-> m[x]]
MapPut(m, k, v) == [x \in (DOMAIN m) \cup {k} |-> IF x = k THEN v ELSE m[x]]
\* unordered_map::emplace: inserts only when the key is absent.
Emplace(m, k, v) == IF k \in DOMAIN m THEN m ELSE MapPut(m, k, v)

(***************************************************************************)
(* The book as a value: [symbol, bids, asks, index].  A side maps a price  *)
(* to a sequence of nodes [addr, order_id, price, qty] (std::list<Order>); *)
(* an index entry is an OrderRef [is_buy, price, it], it a node address.   *)
(***************************************************************************)
Book == [symbol |-> symbol_, bids |-> bids_, asks |-> asks_, index |-> index_]

MboOrderBook(sym) ==
    [symbol |-> sym, bids |-> EmptyMap, asks |-> EmptyMap, index |-> EmptyMap]

\* std::map iteration order: bids_ by std::greater, asks_ by std::less.
BidKeys(b) == SelectSeq(PricesDescending, LAMBDA p : p \in DOMAIN b.bids)
AskKeys(b) == SelectSeq(PricesAscending, LAMBDA p : p \in DOMAIN b.asks)

RECURSIVE Flatten(_, _)
Flatten(side, keys) ==
    IF keys = <<>> THEN <<>>
    ELSE side[Head(keys)] \o Flatten(side, Tail(keys))

\* Every list node of the book, in book order.
AllNodes(b) == Flatten(b.bids, BidKeys(b)) \o Flatten(b.asks, AskKeys(b))

Live(b, h) == \E i \in 1..Len(AllNodes(b)) : AllNodes(b)[i].addr = h

\* *it.  Dereferencing an iterator of an erased node is undefined in C++;
\* IndexConsistent shows that no reachable book holds one.
Deref(b, h) ==
    LET ns == AllNodes(b)
        at == {i \in 1..Len(ns) : ns[i].addr = h}
    IN IF at # {} THEN ns[CHOOSE i \in at : TRUE]
       ELSE [addr |-> Dangling, order_id |-> 0, price |-> 0, qty |-> 0]

\* The address of the node a push_back allocates: no live node has it, and
\* no iterator taken earlier refers to it.
NewNode == 0 - 1

static_is_buy_side(side) == side = "B"

\* A LevelErase that leaves the emptied level in the map.
LevelEraseKeepsEmpty(side, px, h) ==
    [side EXCEPT ![px] = SelectSeq(@, LAMBDA n : n.addr # h)]

\* lvlIt->second.erase(it); if (lvlIt->second.empty()) side.erase(lvlIt);
LevelErase(side, px, h) ==
    LET q == SelectSeq(side[px], LAMBDA n : n.addr # h)
    IN IF q = <<>> THEN MapErase(side, px) ELSE [side EXCEPT ![px] = q]

\* A PushBack that inserts at the head of the list (push_front).
PushFront(side, px, node) ==
    IF px \in DOMAIN side THEN [side EXCEPT ![px] = <<node>> \o @]
    ELSE MapPut(side, px, <<node>>)

\* auto& q = side[px]; q.push_back(node);
PushBack(side, px, node) ==
    IF px \in DOMAIN side THEN [side EXCEPT ![px] = Append(@, node)]
    ELSE MapPut(side, px, <<node>>)

\* it->qty = q, through the iterator alone.
SetQtySide(side, h, q) ==
    [p \in DOMAIN side |->
        [i \in 1..Len(side[p]) |->
            IF side[p][i].addr = h THEN [side[p][i] EXCEPT !.qty = q]
            ELSE side[p][i]]]

SetQty(b, h, q) ==
    [b EXCEPT !.bids = SetQtySide(b.bids, h, q),
              !.asks = SetQtySide(b.asks, h, q)]

(***************************************************************************)
(* MboOrderBook's operations.                                              *)
(***************************************************************************)
\* A clear_ that forgets index_.clear().
clear_KeepsIndex(b) == [b EXCEPT !.bids = EmptyMap, !.asks = EmptyMap]

clear_(b) ==
    [b EXCEPT !.bids = EmptyMap, !.asks = EmptyMap, !.index = EmptyMap]

\* The defensive removal of a stale order with the same id (add_, 46-65).
RemoveExisting(b, id) ==
    IF id \in DOMAIN b.index
    THEN LET oldRef == b.index[id]
         IN [b EXCEPT
               !.bids = IF oldRef.is_buy /\ oldRef.price \in DOMAIN b.bids
                        THEN LevelErase(b.bids, oldRef.price, oldRef.it)
                        ELSE b.bids,
               !.asks = IF ~oldRef.is_buy /\ oldRef.price \in DOMAIN b.asks
                        THEN LevelErase(b.asks, oldRef.price, oldRef.it)
                        ELSE b.asks,
               !.index = MapErase(b.index, id)]
    ELSE b

\* Insert at the end of the FIFO of the event's price level (add_, 67-78).
InsertAtTail(b, e) ==
    LET is_buy == static_is_buy_side(e.side)
        node == [addr |-> NewNode, order_id |-> e.order_id,
                 price |-> e.price, qty |-> e.size]
        ref == [is_buy |-> is_buy, price |-> e.price, it |-> NewNode]
    IN [b EXCEPT
          !.bids = IF is_buy THEN PushBack(b.bids, e.price, node) ELSE b.bids,
          !.asks = IF is_buy THEN b.asks ELSE PushBack(b.asks, e.price, node),
          !.index = Emplace(b.index, e.order_id, ref)]

\* An add_ that does not remove an order already known under the id.
add_KeepsExisting(b, e) == InsertAtTail(b, e)

add_(b, e) == InsertAtTail(RemoveExisting(b, e.order_id), e)

\* A cancel_ without the clamp of lines 92 and 105: it always subtracts.
cancel_Unclamped(b, e) ==
    IF e.order_id \notin DOMAIN b.index THEN b
    ELSE
      LET ref == b.index[e.order_id]
          side == IF ref.is_buy THEN b.bids ELSE b.asks
      IN IF ref.price \notin DOMAIN side
         THEN [b EXCEPT !.index = MapErase(b.index, e.order_id)]
         ELSE
           LET q == Deref(b, ref.it).qty - e.size
               b1 == SetQty(b, ref.it, q)
           IN IF q = 0
              THEN [b1 EXCEPT
                      !.bids = IF ref.is_buy
                               THEN LevelErase(b1.bids, ref.price, ref.it)
                               ELSE b1.bids,
                      !.asks = IF ref.is_buy THEN b1.asks
                               ELSE LevelErase(b1.asks, ref.price, ref.it),
                      !.index = MapErase(b1.index, e.order_id)]
              ELSE b1

cancel_(b, e) ==
    IF e.order_id \notin DOMAIN b.index THEN b
    ELSE
      LET ref == b.index[e.order_id]
          side == IF ref.is_buy THEN b.bids ELSE b.asks
      IN IF ref.price \notin DOMAIN side
         THEN [b EXCEPT !.index = MapErase(b.index, e.order_id)]
         ELSE
           LET old == Deref(b, ref.it).qty
               q == IF e.size >= old THEN 0 ELSE old - e.size
               b1 == SetQty(b, ref.it, q)
           IN IF q = 0
              THEN [b1 EXCEPT
                      !.bids = IF ref.is_buy
                               THEN LevelErase(b1.bids, ref.price, ref.it)
                               ELSE b1.bids,
                      !.asks = IF ref.is_buy THEN b1.asks
                               ELSE LevelErase(b1.asks, ref.price, ref.it),
                      !.index = MapErase(b1.index, e.order_id)]
              ELSE b1

\* A MoveToPrice that forgets ref.price = e.price.
MoveToPriceStalePrice(b, e, ref) ==
    LET side == IF ref.is_buy THEN b.bids ELSE b.asks
        detached == IF ref.price \in DOMAIN side
                    THEN LevelErase(side, ref.price, ref.it) ELSE side
        node == [addr |-> NewNode, order_id |-> e.order_id,
                 price |-> e.price, qty |-> e.size]
        moved == PushBack(detached, e.price, node)
    IN [b EXCEPT
          !.bids = IF ref.is_buy THEN moved ELSE b.bids,
          !.asks = IF ref.is_buy THEN b.asks ELSE moved,
          !.index = [b.index EXCEPT ![e.order_id] =
                        [ref EXCEPT !.it = NewNode]]]

\* Price change: detach from the old level, append at the new level's
\* tail, update the OrderRef in place (modify_, 134-146 and 163-175).
MoveToPrice(b, e, ref) ==
    LET side == IF ref.is_buy THEN b.bids ELSE b.asks
        detached == IF ref.price \in DOMAIN side
                    THEN LevelErase(side, ref.price, ref.it) ELSE side
        node == [addr |-> NewNode, order_id |-> e.order_id,
                 price |-> e.price, qty |-> e.size]
        moved == PushBack(detached, e.price, node)
    IN [b EXCEPT
          !.bids = IF ref.is_buy THEN moved ELSE b.bids,
          !.asks = IF ref.is_buy THEN b.asks ELSE moved,
          !.index = [b.index EXCEPT ![e.order_id] =
                        [ref EXCEPT !.price = e.price, !.it = NewNode]]]

\* A MoveToTail that writes the larger size in place.
MoveToTailInPlace(b, e, ref) == SetQty(b, ref.it, e.size)

\* Same price, larger size: erase and push_back on the same level
\* (modify_, 150-158 and 177-185).
MoveToTail(b, e, ref) ==
    LET side == IF ref.is_buy THEN b.bids ELSE b.asks
    IN IF ref.price \notin DOMAIN side THEN b
       ELSE
         LET node == [addr |-> NewNode, order_id |-> e.order_id,
                      price |-> ref.price, qty |-> e.size]
             moved == [side EXCEPT ![ref.price] =
                          Append(SelectSeq(@, LAMBDA n : n.addr # ref.it), node)]
         IN [b EXCEPT
               !.bids = IF ref.is_buy THEN moved ELSE b.bids,
               !.asks = IF ref.is_buy THEN b.asks ELSE moved,
               !.index = [b.index EXCEPT ![e.order_id] =
                             [ref EXCEPT !.it = NewNode]]]

\* A modify_ that re-queues on any change of size at the same price.
modify_RequeuesOnDecrease(b, e) ==
    IF e.order_id \notin DOMAIN b.index THEN add_(b, e)
    ELSE
      LET ref == b.index[e.order_id]
          old_qty == Deref(b, ref.it).qty
      IN IF static_is_buy_side(e.side) # ref.is_buy THEN b
         ELSE IF e.price # ref.price THEN MoveToPrice(b, e, ref)
         ELSE IF e.size # old_qty THEN MoveToTail(b, e, ref)
         ELSE SetQty(b, ref.it, e.size)

\* A modify_ without the side test of line 127.
modify_AnySide(b, e) ==
    IF e.order_id \notin DOMAIN b.index THEN add_(b, e)
    ELSE
      LET ref == b.index[e.order_id]
          old_qty == Deref(b, ref.it).qty
      IN IF e.price # ref.price THEN MoveToPrice(b, e, ref)
         ELSE IF e.size > old_qty THEN MoveToTail(b, e, ref)
         ELSE SetQty(b, ref.it, e.size)

\* A modify_ that drops an event for an unknown order id.
modify_DropsUnknown(b, e) ==
    IF e.order_id \notin DOMAIN b.index THEN b
    ELSE
      LET ref == b.index[e.order_id]
          old_qty == Deref(b, ref.it).qty
      IN IF static_is_buy_side(e.side) # ref.is_buy THEN b
         ELSE IF e.price # ref.price THEN MoveToPrice(b, e, ref)
         ELSE IF e.size > old_qty THEN MoveToTail(b, e, ref)
         ELSE SetQty(b, ref.it, e.size)

modify_(b, e) ==
    IF e.order_id \notin DOMAIN b.index THEN add_(b, e)
    ELSE
      LET ref == b.index[e.order_id]
          old_px == ref.price
          old_qty == Deref(b, ref.it).qty
      IN IF static_is_buy_side(e.side) # ref.is_buy THEN b
         ELSE IF e.price # old_px THEN MoveToPrice(b, e, ref)
         ELSE IF e.size > old_qty THEN MoveToTail(b, e, ref)
         ELSE SetQty(b, ref.it, e.size)

\* An apply without the side check of line 25.
applyNoSideCheck(b, e) ==
    IF e.action \in {"T", "F", "N"} THEN b
    ELSE IF e.action = "R" THEN clear_(b)
    ELSE IF e.action = "A" THEN add_(b, e)
    ELSE IF e.action = "C" THEN cancel_(b, e)
    ELSE IF e.action = "M" THEN modify_(b, e)
    ELSE b

apply(b, e) ==
    IF e.action \in {"T", "F", "N"} THEN b
    ELSE IF e.action = "R" THEN clear_(b)
    ELSE IF e.side # "A" /\ e.side # "B" THEN b
    ELSE IF e.action = "A" THEN add_(b, e)
    ELSE IF e.action = "C" THEN cancel_(b, e)
    ELSE IF e.action = "M" THEN modify_(b, e)
    ELSE b

(***************************************************************************)
(* The read-only views of the book.  The JSON text is held as the value it *)
(* spells: the optional "symbol" member as a set of at most one string,    *)
(* each side as the sequence of its level objects.  A double is held as a  *)
(* whole number of half ticks, 1 / (2 * price_scale), in which the         *)
(* quotient px / price_scale, the sum of two prices and its half are exact.*)
(***************************************************************************)
price_scale == 10000

RECURSIVE SumQty(_)
\* for (const auto& o : it->second) sum_qty += o.qty;
SumQty(level) ==
    IF level = << >> THEN 0 ELSE Head(level).qty + SumQty(Tail(level))

\* std::fixed << std::setprecision(4) << (px / price_scale): the whole part
\* and the four digits after the point.
Fixed4(px) == [whole |-> px \div price_scale, digits |-> px % price_scale]

\* One level object: px, px_f, sz, ct.
JsonLevel(side, px) ==
    [px |-> px, px_f |-> Fixed4(px), sz |-> SumQty(side[px]),
     ct |-> Len(side[px])]

\* A loop test that lets one level too many through.
PrintedUpToDepth(printed, depth) == printed <= depth

\* printed < depth
PrintedBelowDepth(printed, depth) == printed < depth

RECURSIVE JsonLevels(_, _, _, _)
\* for (it = side.begin(); it != side.end() && printed < depth;
\*      ++it, ++printed), entered with `keys` still to visit.
JsonLevels(side, keys, printed, depth) ==
    IF keys = << >> \/ ~PrintedBelowDepth(printed, depth) THEN << >>
    ELSE <<JsonLevel(side, Head(keys))>>
         \o JsonLevels(side, Tail(keys), printed + 1, depth)

\* MboOrderBook::to_json(depth)
to_json(b, depth) ==
    [symbol |-> IF b.symbol # "" THEN {b.symbol} ELSE {},
     bids |-> JsonLevels(b.bids, BidKeys(b), 0, depth),
     asks |-> JsonLevels(b.asks, AskKeys(b), 0, depth)]

\* static_cast<double>(it->first) / price_scale, in half ticks.
PxDouble(px) == 2 * px

\* TopOfBook's member initializers.
TopOfBook ==
    [has_bid |-> FALSE, has_ask |-> FALSE, bid_px |-> 0, bid_sz |-> 0,
     ask_px |-> 0, ask_sz |-> 0, mid |-> 0, spread |-> 0]

\* A test that is content with one side.
HasEitherSide(t) == t.has_bid \/ t.has_ask

\* if (t.has_bid && t.has_ask)
HasBothSides(t) == t.has_bid /\ t.has_ask

\* MboOrderBook::top_of_book()
top_of_book(b) ==
    LET t0 == TopOfBook
        t1 == IF DOMAIN b.bids # {}
              THEN LET px == Head(BidKeys(b))
                   IN [t0 EXCEPT !.has_bid = TRUE, !.bid_px = PxDouble(px),
                                 !.bid_sz = SumQty(b.bids[px])]
              ELSE t0
        t2 == IF DOMAIN b.asks # {}
              THEN LET px == Head(AskKeys(b))
                   IN [t1 EXCEPT !.has_ask = TRUE, !.ask_px = PxDouble(px),
                                 !.ask_sz = SumQty(b.asks[px])]
              ELSE t1
    IN IF HasBothSides(t2)
       THEN [t2 EXCEPT !.mid = (t2.bid_px + t2.ask_px) \div 2,
                       !.spread = t2.ask_px - t2.bid_px]
       ELSE t2

(***************************************************************************)
(* Renaming of addresses: a live node's address becomes its rank in book   *)
(* order; an iterator to no live node becomes Dangling.                    *)
(***************************************************************************)
Rank(ns, h) ==
    LET at == {i \in 1..Len(ns) : ns[i].addr = h}
    IN IF at # {} THEN CHOOSE i \in at : TRUE ELSE Dangling

CanonSide(ns, side) ==
    [p \in DOMAIN side |->
        [i \in 1..Len(side[p]) |->
            [side[p][i] EXCEPT !.addr = Rank(ns, side[p][i].addr)]]]

Canon(b) ==
    LET ns == AllNodes(b)
    IN [b EXCEPT !.bids = CanonSide(ns, b.bids),
                 !.asks = CanonSide(ns, b.asks),
                 !.index = [k \in DOMAIN b.index |->
                              [b.index[k] EXCEPT !.it = Rank(ns, b.index[k].it)]]]

(***************************************************************************)
(* The book engine as a state machine: a book constructed for a symbol,    *)
(* then any sequence of apply() calls.                                     *)
(***************************************************************************)
BookInit ==
    /\ symbol_ \in Symbols
    /\ bids_ = EmptyMap
    /\ asks_ = EmptyMap
    /\ index_ = EmptyMap

SetBook(r) ==
    /\ symbol_' = r.symbol
    /\ bids_' = r.bids
    /\ asks_' = r.asks
    /\ index_' = r.index

\* One apply() call.  A book that apply() leaves as it was needs no renaming.
Apply(e) ==
    LET r == apply(Book, e)
    IN IF r = Book THEN UNCHANGED bookVars ELSE SetBook(Canon(r))

ApplyEvent == \E e \in Events : Apply(e)

(***************************************************************************)
(* The persistent-writer queue (tcp_main_ws.cpp).  The session loop is the *)
(* only producer: it calls enqueue_snapshot_write.  The writer thread is   *)
(* the only consumer.  Both touch the deque under q_mtx; every statement   *)
(* executed under the mutex is a step of its own.  An item is identified   *)
(* by its number in enqueue order.  The program's capacity is 20000        *)
(* (tcp_main_ws.cpp:461); the model runs with a small one.                 *)
(***************************************************************************)
max_q == 3
MaxEnqueued == 7

VARIABLES
    pg,        \* whether a PgWriter exists (PG_CONNINFO set and connected)
    q,         \* std::deque<SnapshotWrite>
    q_mtx,     \* owner of the mutex: "free", "enqueue" or "pg_thread"
    enq_pc,    \* enqueue_snapshot_write: "idle", "lock", "full", "push", "unlock"
    pg_pc,     \* writer thread: "off", "lock", "wait", "pop", "unlock", "write"
    pg_item,   \* writer thread's local item (0: none yet)
    enqueued,  \* number of items pushed so far; the next item's number - 1
    sincePop,  \* number of items pushed since the writer thread last popped
    written    \* the items handed to write_snapshot so far, in call order

queueVars == <<pg, q, q_mtx, enq_pc, pg_pc, pg_item, enqueued, sincePop,
               written>>

NoItem == 0

QueueStart(has_pg) ==
    /\ pg = has_pg
    /\ q = << >>
    /\ q_mtx = "free"
    /\ enq_pc = "idle"
    /\ pg_pc = IF pg THEN "lock" ELSE "off"
    /\ pg_item = NoItem
    /\ enqueued = 0
    /\ sincePop = 0
    /\ written = << >>

QueueInit == \E has_pg \in BOOLEAN : QueueStart(has_pg)

\* The loop condition of line 90, with one slot too many.
FullOffByOne(d) == Len(d) > max_q

\* q.size() >= max_q
Full(d) == Len(d) >= max_q

\* if (!pg) return;
EnqueueDisabled ==
    /\ enq_pc = "idle"
    /\ ~pg
    /\ UNCHANGED queueVars

\* The item is built (lines 82-85).
EnqueueBegin ==
    /\ enq_pc = "idle"
    /\ pg
    /\ enqueued < MaxEnqueued
    /\ enq_pc' = "lock"
    /\ UNCHANGED <<pg, q, q_mtx, pg_pc, pg_item, enqueued, sincePop, written>>

\* std::lock_guard<std::mutex> lk(q_mtx);
EnqueueLock ==
    /\ enq_pc = "lock"
    /\ q_mtx = "free"
    /\ q_mtx' = "enqueue"
    /\ enq_pc' = "full"
    /\ UNCHANGED <<pg, q, pg_pc, pg_item, enqueued, sincePop, written>>

\* while (q.size() >= max_q) q.pop_front();
EnqueuePopFront ==
    /\ enq_pc = "full"
    /\ Full(q)
    /\ q' = Tail(q)
    /\ UNCHANGED <<pg, q_mtx, enq_pc, pg_pc, pg_item, enqueued, sincePop,
                   written>>

EnqueueLoopExit ==
    /\ enq_pc = "full"
    /\ ~Full(q)
    /\ enq_pc' = "push"
    /\ UNCHANGED <<pg, q, q_mtx, pg_pc, pg_item, enqueued, sincePop, written>>

\* q.push_back(std::move(item));
EnqueuePushBack ==
    /\ enq_pc = "push"
    /\ q' = Append(q, enqueued + 1)
    /\ enqueued' = enqueued + 1
    /\ sincePop' = sincePop + 1
    /\ enq_pc' = "unlock"
    /\ UNCHANGED <<pg, q_mtx, pg_pc, pg_item, written>>

\* The lock_guard's scope ends; q_cv.notify_one().
EnqueueUnlock ==
    /\ enq_pc = "unlock"
    /\ q_mtx' = "free"
    /\ enq_pc' = "idle"
    /\ UNCHANGED <<pg, q, pg_pc, pg_item, enqueued, sincePop, written>>

\* std::unique_lock<std::mutex> lk(q_mtx), and each re-acquisition by wait.
PgLock ==
    /\ pg_pc = "lock"
    /\ q_mtx = "free"
    /\ q_mtx' = "pg_thread"
    /\ pg_pc' = "wait"
    /\ UNCHANGED <<pg, q, enq_pc, pg_item, enqueued, sincePop, written>>

\* q_cv.wait(lk, pred) with the queue empty (stop is never set): the mutex
\* is released until a notification or a spurious wake-up.
PgWait ==
    /\ pg_pc = "wait"
    /\ q = << >>
    /\ q_mtx' = "free"
    /\ pg_pc' = "lock"
    /\ UNCHANGED <<pg, q, enq_pc, pg_item, enqueued, sincePop, written>>

PgWake ==
    /\ pg_pc = "wait"
    /\ q # << >>
    /\ pg_pc' = "pop"
    /\ UNCHANGED <<pg, q, q_mtx, enq_pc, pg_item, enqueued, sincePop, written>>

\* item = std::move(q.front()); q.pop_front();
PgPopFront ==
    /\ pg_pc = "pop"
    /\ pg_item' = Head(q)
    /\ q' = Tail(q)
    /\ sincePop' = 0
    /\ pg_pc' = "unlock"
    /\ UNCHANGED <<pg, q_mtx, enq_pc, enqueued, written>>

PgUnlock ==
    /\ pg_pc = "unlock"
    /\ q_mtx' = "free"
    /\ pg_pc' = "write"
    /\ UNCHANGED <<pg, q, enq_pc, pg_item, enqueued, sincePop, written>>

\* pg->write_snapshot(...) is called with the item and returns, after any
\* delay; its result is not looked at.
PgWriteSnapshot ==
    /\ pg_pc = "write"
    /\ pg_pc' = "lock"
    /\ written' = Append(written, pg_item)
    /\ UNCHANGED <<pg, q, q_mtx, enq_pc, pg_item, enqueued, sincePop>>

\* PgWriter::write_snapshot with a connection: the eight parameters handed
\* to PQexecPrepared.  std::to_string gives a text that is never empty; a
\* parameter is the set holding its text, or the empty set for nullptr
\* (SQL NULL).
write_snapshot(ts_us, symbol, tob) ==
    LET to_string(v) == <<v>>
        c_str(text) == IF text = << >> THEN {} ELSE {text}
        bid_px == IF tob.has_bid THEN to_string(tob.bid_px) ELSE << >>
        bid_sz == IF tob.has_bid THEN to_string(tob.bid_sz) ELSE << >>
        ask_px == IF tob.has_ask THEN to_string(tob.ask_px) ELSE << >>
        ask_sz == IF tob.has_ask THEN to_string(tob.ask_sz) ELSE << >>
    IN [ts |-> {to_string(ts_us)},
        symbol |-> {symbol},
        best_bid_px |-> c_str(bid_px),
        best_bid_sz |-> c_str(bid_sz),
        best_ask_px |-> c_str(ask_px),
        best_ask_sz |-> c_str(ask_sz),
        mid |-> {to_string(tob.mid)},
        spread |-> {to_string(tob.spread)}]

(***************************************************************************)
(* The snapshot store (snapshot_store.cpp).  A string object lives on the  *)
(* heap and is named by its allocation number; two shared_ptr that are     *)
(* both alive are equal exactly if they name the same allocation.  A       *)
(* shared_ptr is two words, the object pointer and the control block       *)
(* pointer, read and written one after the other.  A string is built one   *)
(* character at a time.  Every statement under g_mtx is a step of its own. *)
(***************************************************************************)
MaxPublished == 2

StoreSymbols == {"CLX5", "CLZ5"}
\* The slot of the overloads without a symbol.
Global == "*"
Slots == StoreSymbols \cup {Global}
Readers == {"r1", "r2"}

Null == 0 - 1
SharedPtr(h) == [ptr |-> h, ctl |-> h]

\* std::string{"{}"}
DefaultText == <<"{", "}">>
\* The JSON text of the n-th snapshot handed to publish_snapshot.
SnapshotText(n) == <<"{", ToString(n), "}">>

VARIABLES
    heap,                \* allocation number -> [s, text, target]
    g_mtx,               \* [writer, readers] of the shared_mutex
    g_latest_by_symbol,  \* symbol -> shared_ptr
    g_latest_global,     \* shared_ptr, initially the "{}" object
    pub_pc,              \* publish_snapshot: "idle", "build", "lock", "index",
                         \* "ptr", "ctl", "unlock"
    pub_target,          \* the slot the call publishes to
    pub_p,               \* its local p
    rd_pc,               \* load_snapshot per caller: "idle", "lock", "find",
                         \* "ptr", "ctl", "unlock", "done"
    rd_sym,              \* its argument (Global for the overload without)
    rd_src,              \* the slot it copies from
    rd_ret,              \* the shared_ptr it returns
    rd_cur,              \* the values current for its slot during the call
    rd_epoch             \* the number of snapshots published when it took
                         \* its lock

storeVars == <<heap, g_mtx, g_latest_by_symbol, g_latest_global,
               pub_pc, pub_target, pub_p>>
readerVars == <<rd_pc, rd_sym, rd_src, rd_ret, rd_cur, rd_epoch>>

StoreInit ==
    /\ heap = [h \in {0} |-> [s |-> DefaultText, text |-> DefaultText,
                              target |-> Global]]
    /\ g_mtx = [writer |-> FALSE, readers |-> {}]
    /\ g_latest_by_symbol = EmptyMap
    /\ g_latest_global = SharedPtr(0)
    /\ pub_pc = "idle"
    /\ pub_target = Global
    /\ pub_p = Null

ReadersInit ==
    /\ rd_pc = [r \in Readers |-> "idle"]
    /\ rd_sym = [r \in Readers |-> Global]
    /\ rd_src = [r \in Readers |-> Global]
    /\ rd_ret = [r \in Readers |-> SharedPtr(Null)]
    /\ rd_cur = [r \in Readers |-> {}]
    /\ rd_epoch = [r \in Readers |-> 0]

Allocated == Cardinality(DOMAIN heap) - 1

\* A copy that is always taken from the default slot.
SlotAlwaysGlobal(src) == g_latest_global

Slot(src) ==
    IF src = Global THEN g_latest_global ELSE g_latest_by_symbol[src]

\* What a load for slot t returns when nothing else runs (lines 45-51).
CurrentOf(by_symbol, global, t) ==
    IF t # Global /\ t \in DOMAIN by_symbol THEN by_symbol[t].ptr
    ELSE global.ptr

Current(t) == CurrentOf(g_latest_by_symbol, g_latest_global, t)

InLoad(r) == rd_pc[r] \notin {"idle", "done"}

\* The number of publish_snapshot calls that have assigned their slot; the
\* objects 1..Installed are the snapshots published, in that order.
Installed ==
    IF pub_pc \in {"build", "lock", "index", "ptr", "ctl"}
    THEN Allocated - 1 ELSE Allocated

\* std::unique_lock
CanLock == ~g_mtx.writer /\ g_mtx.readers = {}

\* A shared lock that does not wait for the writer.
CanLockSharedAlways == TRUE

\* std::shared_lock
CanLockShared == ~g_mtx.writer

\* publish_snapshot(s) / publish_snapshot(symbol, s) is called;
\* std::make_shared allocates the object.
PublishBegin(t) ==
    /\ pub_pc = "idle"
    /\ Allocated < MaxPublished
    /\ LET h == Allocated + 1
       IN /\ heap' = [x \in DOMAIN heap \cup {h} |->
                        IF x = h
                        THEN [s |-> SnapshotText(h), text |-> << >>,
                              target |-> t]
                        ELSE heap[x]]
          /\ pub_p' = h
    /\ pub_target' = t
    /\ pub_pc' = "build"
    /\ UNCHANGED <<g_mtx, g_latest_by_symbol, g_latest_global, readerVars>>

\* The string is constructed in the new object.
PublishBuild ==
    /\ pub_pc = "build"
    /\ LET o == heap[pub_p]
       IN IF Len(o.text) < Len(o.s)
          THEN /\ heap' = [heap EXCEPT ![pub_p].text =
                             Append(o.text, o.s[Len(o.text) + 1])]
               /\ pub_pc' = "build"
          ELSE /\ heap' = heap
               /\ pub_pc' = "lock"
    /\ UNCHANGED <<g_mtx, g_latest_by_symbol, g_latest_global, pub_target,
                   pub_p, readerVars>>

\* std::unique_lock lock(g_mtx);
PublishLock ==
    /\ pub_pc = "lock"
    /\ CanLock
    /\ g_mtx' = [g_mtx EXCEPT !.writer = TRUE]
    /\ pub_pc' = IF pub_target = Global THEN "ptr" ELSE "index"
    /\ UNCHANGED <<heap, g_latest_by_symbol, g_latest_global, pub_target,
                   pub_p, readerVars>>

\* g_latest_by_symbol[symbol]: a missing key is inserted with a null value.
PublishIndex ==
    /\ pub_pc = "index"
    /\ g_latest_by_symbol' =
          Emplace(g_latest_by_symbol, pub_target, SharedPtr(Null))
    /\ pub_pc' = "ptr"
    /\ UNCHANGED <<heap, g_mtx, g_latest_global, pub_target, pub_p,
                   readerVars>>

\* ... = std::move(p), first word.
PublishAssignPtr ==
    /\ pub_pc = "ptr"
    /\ IF pub_target = Global
       THEN /\ g_latest_global' = [g_latest_global EXCEPT !.ptr = pub_p]
            /\ UNCHANGED g_latest_by_symbol
       ELSE /\ g_latest_by_symbol' =
                  [g_latest_by_symbol EXCEPT ![pub_target].ptr = pub_p]
            /\ UNCHANGED g_latest_global
    /\ pub_pc' = "ctl"
    /\ UNCHANGED <<heap, g_mtx, pub_target, pub_p, readerVars>>

\* ... = std::move(p), second word: the slot now holds the new value.
PublishAssignCtl ==
    /\ pub_pc = "ctl"
    /\ IF pub_target = Global
       THEN /\ g_latest_global' = [g_latest_global EXCEPT !.ctl = pub_p]
            /\ UNCHANGED g_latest_by_symbol
       ELSE /\ g_latest_by_symbol' =
                  [g_latest_by_symbol EXCEPT ![pub_target].ctl = pub_p]
            /\ UNCHANGED g_latest_global
    /\ rd_cur' = [r \in Readers |->
                    IF InLoad(r)
                    THEN rd_cur[r] \cup
                           {CurrentOf(g_latest_by_symbol', g_latest_global',
                                      rd_sym[r])}
                    ELSE rd_cur[r]]
    /\ pub_pc' = "unlock"
    /\ UNCHANGED <<heap, g_mtx, pub_target, pub_p, rd_pc, rd_sym, rd_src,
                   rd_ret, rd_epoch>>

\* The unique_lock's scope ends; publish_snapshot returns.
PublishUnlock ==
    /\ pub_pc = "unlock"
    /\ g_mtx' = [g_mtx EXCEPT !.writer = FALSE]
    /\ pub_pc' = "idle"
    /\ UNCHANGED <<heap, g_latest_by_symbol, g_latest_global, pub_target,
                   pub_p, readerVars>>

\* load_snapshot() / load_snapshot(symbol) is called.
LoadBegin(r, t) ==
    /\ rd_pc[r] \in {"idle", "done"}
    /\ rd_pc' = [rd_pc EXCEPT ![r] = "lock"]
    /\ rd_sym' = [rd_sym EXCEPT ![r] = t]
    /\ rd_src' = [rd_src EXCEPT ![r] = Global]
    /\ rd_ret' = [rd_ret EXCEPT ![r] = SharedPtr(Null)]
    /\ rd_cur' = [rd_cur EXCEPT ![r] = {Current(t)}]
    /\ rd_epoch' = [rd_epoch EXCEPT ![r] = 0]
    /\ UNCHANGED storeVars

\* std::shared_lock lock(g_mtx);
LoadLock(r) ==
    /\ rd_pc[r] = "lock"
    /\ CanLockShared
    /\ g_mtx' = [g_mtx EXCEPT !.readers = @ \cup {r}]
    /\ rd_pc' = [rd_pc EXCEPT ![r] = IF rd_sym[r] = Global THEN "ptr"
                                     ELSE "find"]
    /\ rd_epoch' = [rd_epoch EXCEPT ![r] = Installed]
    /\ UNCHANGED <<heap, g_latest_by_symbol, g_latest_global, pub_pc,
                   pub_target, pub_p, rd_sym, rd_src, rd_ret, rd_cur>>

\* g_latest_by_symbol.find(symbol), and the choice of the slot to return.
LoadFind(r) ==
    /\ rd_pc[r] = "find"
    /\ rd_src' = [rd_src EXCEPT ![r] =
                    IF rd_sym[r] \in DOMAIN g_latest_by_symbol THEN rd_sym[r]
                    ELSE Global]
    /\ rd_pc' = [rd_pc EXCEPT ![r] = "ptr"]
    /\ UNCHANGED <<storeVars, rd_sym, rd_ret, rd_cur, rd_epoch>>

\* The returned shared_ptr is copied from the slot, first word.
LoadCopyPtr(r) ==
    /\ rd_pc[r] = "ptr"
    /\ rd_ret' = [rd_ret EXCEPT ![r].ptr = Slot(rd_src[r]).ptr]
    /\ rd_pc' = [rd_pc EXCEPT ![r] = "ctl"]
    /\ UNCHANGED <<storeVars, rd_sym, rd_src, rd_cur, rd_epoch>>

\* Second word.
LoadCopyCtl(r) ==
    /\ rd_pc[r] = "ctl"
    /\ rd_ret' = [rd_ret EXCEPT ![r].ctl = Slot(rd_src[r]).ctl]
    /\ rd_pc' = [rd_pc EXCEPT ![r] = "unlock"]
    /\ UNCHANGED <<storeVars, rd_sym, rd_src, rd_cur, rd_epoch>>

\* The shared_lock's scope ends; load_snapshot returns rd_ret.
LoadUnlock(r) ==
    /\ rd_pc[r] = "unlock"
    /\ g_mtx' = [g_mtx EXCEPT !.readers = @ \ {r}]
    /\ rd_pc' = [rd_pc EXCEPT ![r] = "done"]
    /\ UNCHANGED <<heap, g_latest_by_symbol, g_latest_global, pub_pc,
                   pub_target, pub_p, rd_sym, rd_src, rd_ret, rd_cur,
                   rd_epoch>>

(***************************************************************************)
(* One push session (ws_server.cpp, class WsSession).  Its handlers run    *)
(* one at a time on the session's strand, so each handler is one step; the *)
(* load_snapshot call inside on_tick takes the shared lock and therefore   *)
(* runs only while the publisher is outside its critical section.  The     *)
(* timer's delay is not modelled: a tick comes at any later moment.  A     *)
(* control message is given by the fields the parser extracts from it; a   *)
(* field that is absent is the empty set.  The stream allows one           *)
(* async_write at a time; what a write started during another one delivers *)
(* is undefined, so such an ack delivers its frame or no frame.            *)
(***************************************************************************)
MaxAcksInFlight == 1

MsgTypes == {{}, {"subscribe"}, {"update"}, {"ping"}}
MsgSymbols == {{}, {""}} \cup {{t} : t \in StoreSymbols}
MsgDepths == {{}, {0}, {1}, {200}, {201}}
MsgPushMs == {{}, {9}, {10}, {5000}, {5001}}
Messages == [type : MsgTypes, symbol : MsgSymbols, depth : MsgDepths,
             push_ms : MsgPushMs]

\* The buffer of a read that completed with an error: it is not looked at.
NoMessage == [type |-> {}, symbol |-> {}, depth |-> {}, push_ms |-> {}]

VARIABLES
    ws_symbol_,        \* WsSession::symbol_
    depth_,            \* WsSession::depth_
    push_ms_,          \* WsSession::push_ms_
    last_sent_,        \* WsSession::last_sent_
    write_in_flight_,  \* WsSession::write_in_flight_
    accept_pending,    \* async_accept outstanding
    read_pending,      \* async_read outstanding
    timer_pending,     \* timer_.async_wait outstanding
    snap_pending,      \* the snapshot's async_write outstanding
    acks_pending,      \* number of ack async_write outstanding
    sent,              \* snapshots sent since symbol_ last changed
    wire,              \* the last two snapshots sent: <<previous, last>>
    ack_out            \* what the latest ack's async_write delivers

sessionVars == <<ws_symbol_, depth_, push_ms_, last_sent_, write_in_flight_,
                 accept_pending, read_pending, timer_pending, snap_pending,
                 acks_pending, sent, wire, ack_out>>

\* cfg.push_ms as main hands it to start_ws_server: the default, or argv[7].
DefaultPushMs == {50, 5, 6000}

\* The members' initializers and the constructor; run() starts the accept.
WsSession(default_push_ms) ==
    /\ ws_symbol_ = "CLX5"
    /\ depth_ = 10
    /\ push_ms_ = default_push_ms
    /\ last_sent_ = SharedPtr(Null)
    /\ write_in_flight_ = FALSE
    /\ accept_pending = TRUE
    /\ read_pending = FALSE
    /\ timer_pending = FALSE
    /\ snap_pending = FALSE
    /\ acks_pending = 0
    /\ sent = << >>
    /\ wire = <<Null, Null>>
    /\ ack_out = {}

\* A session of a server started without a push_ms argument.
SessionInit == WsSession(50)

\* A load that returns the fallback slot although the symbol has an entry.
load_snapshotPrefersGlobal(symbol) == g_latest_global

\* load_snapshot(symbol), as one step under the shared lock.
load_snapshot(symbol) ==
    IF symbol \in DOMAIN g_latest_by_symbol THEN g_latest_by_symbol[symbol]
    ELSE g_latest_global

\* A duplicate check that never finds a duplicate.
IsDuplicateNever(cur, last) == FALSE

\* last_sent_ && cur == last_sent_
IsDuplicate(cur, last) == last.ptr # Null /\ cur.ptr = last.ptr

\* The value of a field that is present.
Field(f) == CHOOSE v \in f : TRUE

\* parse_control_message's return value.
Recognized(msg) == msg.type \in {{"subscribe"}, {"update"}}

SymbolAfter(msg) ==
    IF msg.symbol # {} /\ Field(msg.symbol) # "" THEN Field(msg.symbol)
    ELSE ws_symbol_

DepthAfter(msg) ==
    IF msg.depth # {} /\ Field(msg.depth) > 0 /\ Field(msg.depth) <= 200
    THEN Field(msg.depth)
    ELSE depth_

PushMsAfter(msg) ==
    IF msg.push_ms = {} THEN push_ms_
    ELSE IF Field(msg.push_ms) < 10 THEN 10
    ELSE IF Field(msg.push_ms) > 5000 THEN 5000
    ELSE Field(msg.push_ms)

\* The frame make_ack_json builds.
make_ack_json(symbol, depth, push_ms) ==
    [type |-> "ack", symbol |-> symbol, depth |-> depth, push_ms |-> push_ms]

\* What an async_write of frame delivers when started in the current state.
Delivered(frame) ==
    IF snap_pending \/ acks_pending > 0 THEN {{frame}, {}} ELSE {{frame}}

\* on_accept(ec)
OnAccept(ec) ==
    /\ accept_pending
    /\ accept_pending' = FALSE
    /\ read_pending' = ~ec
    /\ timer_pending' = ~ec
    /\ UNCHANGED <<ws_symbol_, depth_, push_ms_, last_sent_, write_in_flight_,
                   snap_pending, acks_pending, sent, wire, ack_out>>

\* on_read(ec, bytes) with the message read
OnRead(ec, msg) ==
    /\ read_pending
    /\ IF ec
       THEN /\ read_pending' = FALSE
            /\ UNCHANGED <<ws_symbol_, depth_, push_ms_, acks_pending, sent,
                           ack_out>>
       ELSE IF Recognized(msg)
       THEN /\ acks_pending < MaxAcksInFlight
            /\ ws_symbol_' = SymbolAfter(msg)
            /\ depth_' = DepthAfter(msg)
            /\ push_ms_' = PushMsAfter(msg)
            /\ acks_pending' = acks_pending + 1
            /\ ack_out' \in Delivered(make_ack_json(SymbolAfter(msg),
                                                    DepthAfter(msg),
                                                    PushMsAfter(msg)))
            /\ sent' = IF SymbolAfter(msg) = ws_symbol_ THEN sent ELSE << >>
            /\ UNCHANGED read_pending
       ELSE UNCHANGED <<read_pending, ws_symbol_, depth_, push_ms_,
                        acks_pending, sent, ack_out>>
    /\ UNCHANGED <<last_sent_, write_in_flight_, accept_pending, timer_pending,
                   snap_pending, wire>>

\* The ack's completion handler.
OnAckWritten ==
    /\ acks_pending > 0
    /\ acks_pending' = acks_pending - 1
    /\ UNCHANGED <<ws_symbol_, depth_, push_ms_, last_sent_, write_in_flight_,
                   accept_pending, read_pending, timer_pending, snap_pending,
                   sent, wire, ack_out>>

\* An on_tick that calls schedule_next() after starting the write as well.
OnTickAlwaysRearms ==
    /\ timer_pending
    /\ write_in_flight_ \/ CanLockShared
    /\ LET cur == load_snapshot(ws_symbol_)
       IN IF write_in_flight_ \/ cur.ptr = Null \/ IsDuplicate(cur, last_sent_)
          THEN UNCHANGED <<last_sent_, write_in_flight_, timer_pending,
                           snap_pending, sent, wire>>
          ELSE /\ last_sent_' = cur
               /\ write_in_flight_' = TRUE
               /\ snap_pending' = TRUE
               /\ timer_pending' = TRUE
               /\ sent' = Append(sent, cur.ptr)
               /\ wire' = <<wire[2], cur.ptr>>
    /\ UNCHANGED <<ws_symbol_, depth_, push_ms_, accept_pending, read_pending,
                   acks_pending, ack_out>>

\* on_tick(ec) without error (the timer is never cancelled)
OnTick ==
    /\ timer_pending
    /\ write_in_flight_ \/ CanLockShared
    /\ LET cur == load_snapshot(ws_symbol_)
       IN IF write_in_flight_ \/ cur.ptr = Null \/ IsDuplicate(cur, last_sent_)
          THEN \* schedule_next()
               UNCHANGED <<last_sent_, write_in_flight_, timer_pending,
                           snap_pending, sent, wire>>
          ELSE /\ last_sent_' = cur
               /\ write_in_flight_' = TRUE
               /\ snap_pending' = TRUE
               /\ timer_pending' = FALSE
               /\ sent' = Append(sent, cur.ptr)
               /\ wire' = <<wire[2], cur.ptr>>
    /\ UNCHANGED <<ws_symbol_, depth_, push_ms_, accept_pending, read_pending,
                   acks_pending, ack_out>>

\* on_write(ec, n)
OnWrite(ec) ==
    /\ snap_pending
    /\ snap_pending' = FALSE
    /\ write_in_flight_' = FALSE
    /\ timer_pending' = ~ec
    /\ UNCHANGED <<ws_symbol_, depth_, push_ms_, last_sent_, accept_pending,
                   read_pending, acks_pending, sent, wire, ack_out>>

(***************************************************************************)
(* The latency histogram (pow2_histogram.hpp).  Durations are small        *)
(* numbers of nanoseconds, so every value below fits the machine word.  A  *)
(* quantile p is given in quarters: p = k/4 with k in Quarters.  Quarters  *)
(* and their products with a sample count are exact in a double, so        *)
(* p * (double)n is computed here without rounding error.                  *)
(***************************************************************************)
MaxSamples == 3
MaxNs == 4

\* static constexpr int K = 64;
K == 64

Durations == 0..MaxNs
Quarters == {0 - 1, 0, 1, 2, 3, 4, 5}

VARIABLES
    hist_c,   \* Pow2Histogram::c
    hist_n,   \* Pow2Histogram::n
    samples   \* the durations added so far, in the order of the add calls

histVars == <<hist_c, hist_n, samples>>

HistInit ==
    /\ hist_c = [b \in 0..(K - 1) |-> 0]
    /\ hist_n = 0
    /\ samples = << >>

RECURSIVE Pow2(_)
\* 1ull << e
Pow2(e) == IF e = 0 THEN 1 ELSE 2 * Pow2(e - 1)

RECURSIVE HighBit(_, _)
\* 63 - __builtin_clzll(ns) for ns > 0: the position of the highest set bit,
\* found from position b upwards.
HighBit(ns, b) == IF ns < Pow2(b + 1) THEN b ELSE HighBit(ns, b + 1)

\* Pow2Histogram::bucket
bucket(ns) ==
    IF ns = 0 THEN 0
    ELSE LET b == HighBit(ns, 0)
         IN IF b < 0 THEN 0 ELSE IF b > 63 THEN 63 ELSE b

\* Pow2Histogram::add
add(ns) ==
    /\ hist_n < MaxSamples
    /\ hist_c' = [hist_c EXCEPT ![bucket(ns)] = @ + 1]
    /\ hist_n' = hist_n + 1
    /\ samples' = Append(samples, ns)

\* A clamp that sends a quantile above 1 to 0.
ClampWraps(k) == IF k < 0 THEN 0 ELSE IF k > 4 THEN 0 ELSE k

\* if (p < 0) p = 0; if (p > 1) p = 1;
Clamp(k) == IF k < 0 THEN 0 ELSE IF k > 4 THEN 4 ELSE k

\* static_cast<uint64_t>(p * (double)n): the product is not negative, and
\* the conversion drops its fraction.
Target(k, cnt) ==
    LET target == (Clamp(k) * cnt) \div 4
    IN IF target = 0 THEN 1 ELSE target

RECURSIVE Scan(_, _, _, _)
\* The loop of lines 32-40, entered at bucket b with the running sum cum.
Scan(cs, target, b, cum) ==
    IF b >= K THEN Pow2(63)
    ELSE IF cum + cs[b] >= target
         THEN IF b >= 63 THEN Pow2(63) ELSE Pow2(b + 1)
         ELSE Scan(cs, target, b + 1, cum + cs[b])

\* Pow2Histogram::percentile on the histogram (cs, cnt)
percentile(cs, cnt, k) ==
    IF cnt = 0 THEN 0 ELSE Scan(cs, Target(k, cnt), 0, 0)

(***************************************************************************)
(* The ingest session (tcp_main_ws.cpp): run_one_replay_session's state    *)
(* and handle_line, called once per received line.  A line is held as what *)
(* the framer and the parser make of it: nothing (an empty line, or a      *)
(* header line that handle_line skips), a validation failure (the parser's *)
(* own header test included), or an MboEvent with its symbol and           *)
(* ts_event fields.  ts_event is a set: empty for the empty string, else   *)
(* holding the microseconds ts_event_to_us computes from it.               *)
(* publish_snapshot and enqueue_snapshot_write have their own models       *)
(* above; here the calls of the latest                                     *)
(* fan-out are recorded with their arguments.  The two latency histograms  *)
(* hold clock readings that handle_line never reads back; they are left to *)
(* the histogram's own model.  The bytes after the last newline are opaque *)
(* until the stream ends: carry says whether there are any, and what they  *)
(* parse as is drawn when they are handed to handle_line.  cfg.max_msgs is *)
(* negative, its default (csv_parser.hpp:48): every line is handled.       *)
(* MaxLines bounds the lines handled over the life of the process.         *)
(***************************************************************************)
MaxLines == 3

LineSymbols == {"", "CLX5"}
LineOrderIds == {1, 2}
LineTs == {{}, {1}}
\* Adds of one lot on either side, with or without symbol and timestamp;
\* a cancel of one lot (cancel_ finds the order by its id alone), the reset
\* and a trade, which apply() ignores, all three with symbol and timestamp.
LineEvents ==
    [action : {"A"}, side : {"B", "A"}, price : {1}, size : {1},
     order_id : LineOrderIds, symbol : LineSymbols, ts_event : LineTs]
    \cup [action : {"C"}, side : {"B"}, price : {1}, size : {1},
          order_id : {1}, symbol : {"CLX5"}, ts_event : {{1}}]
    \cup [action : {"R"}, side : {"N"}, price : {0}, size : {0},
          order_id : {0}, symbol : {"CLX5"}, ts_event : {{1}}]
    \cup [action : {"T"}, side : {"N"}, price : {1}, size : {1},
          order_id : {0}, symbol : {"CLX5"}, ts_event : {{1}}]
NoEvent ==
    [action |-> "N", side |-> "N", price |-> 0, size |-> 0, order_id |-> 0,
     symbol |-> "", ts_event |-> {}]
Lines ==
    [text : {"empty", "header", "invalid"}, e : {NoEvent}]
    \cup [text : {"event"}, e : LineEvents]

VARIABLES
    cfg,          \* AppConfig: depth, snapshot_every
    feed_ptr,     \* whether the session's feed writer is open
    ingest_pc,    \* main's loop: "reading" inside run_one_replay_session,
                  \* "ended" when it has returned, "slept" after the
                  \* handler of a failed connection
    carry,        \* whether carry holds bytes of an unterminated line
    has_symbol,   \* run_one_replay_session's locals
    book_symbol,
    processed,
    parsed_ok,
    lines_total,
    last_ts_us,
    fanout,       \* the calls of the latest fan-out, the processed count it
                  \* was made at, and how many fan-outs there were
    lines_seen,   \* lines handled since the process started
    folded        \* every parsed event of the session applied, in arrival
                  \* order, to an empty book

driverVars == <<cfg, feed_ptr, ingest_pc, carry, has_symbol, book_symbol,
                processed, parsed_ok, lines_total, last_ts_us, fanout,
                lines_seen, folded>>

Configs == [depth : {1}, snapshot_every : {0, 1, 2}]

NoFanout ==
    [n |-> 0, count |-> 0, publish |-> << >>, enqueue |-> {}, feed |-> {}]

\* Lines 229-243: the locals a session starts with.
NewLocals ==
    [book |-> MboOrderBook(""), has_symbol |-> FALSE, book_symbol |-> "",
     processed |-> 0, parsed_ok |-> 0, lines_total |-> 0, last_ts_us |-> 0,
     fanout |-> fanout, folded |-> MboOrderBook("")]

\* The session's locals as one value, with the record of the fan-outs.
Locals ==
    [book |-> Book, has_symbol |-> has_symbol, book_symbol |-> book_symbol,
     processed |-> processed, parsed_ok |-> parsed_ok,
     lines_total |-> lines_total, last_ts_us |-> last_ts_us,
     fanout |-> fanout, folded |-> folded]

SetLocals(s) ==
    /\ SetBook(s.book)
    /\ has_symbol' = s.has_symbol
    /\ book_symbol' = s.book_symbol
    /\ processed' = s.processed
    /\ parsed_ok' = s.parsed_ok
    /\ lines_total' = s.lines_total
    /\ last_ts_us' = s.last_ts_us
    /\ fanout' = s.fanout
    /\ folded' = s.folded

\* The process starts its first session: nothing fanned out yet.
DriverStart ==
    /\ ingest_pc = "reading"
    /\ carry = FALSE
    /\ has_symbol = FALSE
    /\ book_symbol = ""
    /\ processed = 0
    /\ parsed_ok = 0
    /\ lines_total = 0
    /\ last_ts_us = 0
    /\ fanout = NoFanout
    /\ lines_seen = 0
    /\ folded = MboOrderBook("")

\* Outside an ingest session.
DriverIdle ==
    /\ cfg = [depth |-> 1, snapshot_every |-> 0]
    /\ feed_ptr = FALSE
    /\ DriverStart

DriverInit ==
    /\ cfg \in Configs
    /\ feed_ptr \in BOOLEAN
    /\ DriverStart

ts_event_to_us(ts) == CHOOSE us \in ts : TRUE

\* Lines 138-140.
TsAfter(s, e) ==
    IF e.ts_event # {} THEN ts_event_to_us(e.ts_event) ELSE s.last_ts_us

\* Lines 142-146: the book after the symbol check.
SymbolSeen(s, e) ==
    IF ~s.has_symbol /\ e.symbol # "" THEN MboOrderBook(e.symbol) ELSE s.book

\* JsonlWriter::write_feed on a writer that is open: the lines appended.
write_feed(line) ==
    IF line.ts_us <= 0 \/ line.symbol = "" \/ line.book_json = << >>
    THEN {}
    ELSE {line}

\* A symbol alone lets the top of book and the feed line through.
HasSymbol(s) == s.book_symbol # ""

\* !sym.empty() && last_ts_us > 0
HasSymbolAndTs(s) == s.book_symbol # "" /\ s.last_ts_us > 0

\* Lines 158-192 and 304-332: the fan-out of the session's book.
Fanout(s) ==
    LET book_json == to_json(s.book, cfg.depth)
        sym == s.book_symbol
        known == HasSymbolAndTs(s)
    IN [n |-> s.fanout.n + 1,
        count |-> s.processed,
        publish |-> IF sym # "" THEN <<sym, book_json>>
                    ELSE <<Global, book_json>>,
        enqueue |-> IF known /\ pg
                    THEN {[ts_us |-> s.last_ts_us, symbol |-> sym,
                           tob |-> top_of_book(s.book)]}
                    ELSE {},
        feed |-> IF feed_ptr /\ known
                 THEN write_feed([ts_us |-> s.last_ts_us, symbol |-> sym,
                                  processed |-> s.processed,
                                  depth |-> cfg.depth,
                                  book_json |-> book_json])
                 ELSE {}]

\* snapshot_every > 0 && (processed % snapshot_every == 0)
SnapshotDue(count) ==
    cfg.snapshot_every > 0 /\ count % cfg.snapshot_every = 0

\* A rejected line that counts as processed all the same.
RejectedButCounted(s) ==
    [s EXCEPT !.lines_total = @ + 1, !.processed = @ + 1]

\* Lines 132-135: parse_mbo_csv_line returns false (fewer than 15 fields,
\* a required integer or the price not parsed, or its own header test).
Rejected(s) == [s EXCEPT !.lines_total = @ + 1]

\* handle_line(line, ...) on the locals s
handle_line(s, line) ==
    IF line.text \in {"empty", "header"} THEN s
    ELSE IF line.text = "invalid"
    THEN Rejected(s)
    ELSE LET e == line.e
             seen == ~s.has_symbol /\ e.symbol # ""
             applied ==
                 [s EXCEPT !.lines_total = @ + 1,
                           !.parsed_ok = @ + 1,
                           !.last_ts_us = TsAfter(s, e),
                           !.book_symbol = IF seen THEN e.symbol ELSE @,
                           !.has_symbol = (@ \/ seen),
                           !.book = Canon(apply(SymbolSeen(s, e), e)),
                           !.processed = @ + 1,
                           !.folded = Canon(apply(@, e))]
         IN IF SnapshotDue(applied.processed)
            THEN [applied EXCEPT !.fanout = Fanout(applied)]
            ELSE applied

\* A session end that forces no flush.
NoFinalFlush(s) == s

\* Lines 304-332: the forced flush at the end of the stream.
final_flush(s) ==
    IF s.processed > 0
       /\ (cfg.snapshot_every <= 0 \/ s.processed % cfg.snapshot_every # 0)
    THEN [s EXCEPT !.fanout = Fanout(s)]
    ELSE s

Skipped(line) == line.text \in {"empty", "header"}

\* read_some returns bytes that end inside a line (lines 253-268).
ReadPartial ==
    /\ ingest_pc = "reading"
    /\ ~carry
    /\ lines_seen < MaxLines
    /\ carry' = TRUE
    /\ UNCHANGED <<bookVars, cfg, feed_ptr, ingest_pc, has_symbol,
                   book_symbol, processed, parsed_ok, lines_total, last_ts_us,
                   fanout, lines_seen, folded>>

\* A newline arrives: the framer cuts the line off carry and calls
\* handle_line (lines 262-284).
HandleLine(line) ==
    /\ ingest_pc = "reading"
    /\ lines_seen < MaxLines
    /\ SetLocals(handle_line(Locals, line))
    /\ carry' = FALSE
    /\ lines_seen' = IF Skipped(line) THEN lines_seen ELSE lines_seen + 1
    /\ UNCHANGED <<cfg, feed_ptr, ingest_pc>>

\* read_some fails or reports the end of the stream: the bytes left in
\* carry are handled as a line, the flush is forced and
\* run_one_replay_session returns (lines 248-251, 286-333).  The book dump
\* and the statistics written after it are read back by nothing here.
SessionEnd(tail) ==
    /\ ingest_pc = "reading"
    /\ SetLocals(final_flush(IF carry THEN handle_line(Locals, tail)
                              ELSE Locals))
    /\ carry' = FALSE
    /\ lines_seen' = IF carry /\ ~Skipped(tail) THEN lines_seen + 1
                     ELSE lines_seen
    /\ ingest_pc' = "ended"
    /\ UNCHANGED <<cfg, feed_ptr>>

\* main calls run_one_replay_session and the connection fails: the
\* exception leaves the call before any local exists, and the handler in
\* main sleeps 2000 ms (lines 486-500, 212-213).
ConnectFails ==
    /\ ingest_pc \in {"ended", "slept"}
    /\ ingest_pc' = "slept"
    /\ SetLocals(NewLocals)
    /\ carry' = FALSE
    /\ UNCHANGED <<cfg, feed_ptr, lines_seen>>

\* main calls run_one_replay_session again and the connection is made
\* (lines 486-493, 212-243).
StartSession ==
    /\ ingest_pc \in {"ended", "slept"}
    /\ ingest_pc' = "reading"
    /\ feed_ptr' \in BOOLEAN
    /\ SetLocals(NewLocals)
    /\ carry' = FALSE
    /\ UNCHANGED <<cfg, lines_seen>>

(***************************************************************************)
(* Specifications.  Each runs one component and leaves the others in their *)
(* initial state.                                                          *)
(***************************************************************************)
vars == <<bookVars, queueVars, storeVars, readerVars, sessionVars, histVars,
          driverVars>>

\* The book engine.
Init ==
    /\ BookInit /\ QueueStart(FALSE) /\ StoreInit /\ ReadersInit
    /\ SessionInit /\ HistInit /\ DriverIdle
Next ==
    ApplyEvent /\ UNCHANGED <<queueVars, storeVars, readerVars, sessionVars,
                              histVars, driverVars>>
Spec == Init /\ [][Next]_vars

\* The persistent-writer queue.
notQueue == <<bookVars, storeVars, readerVars, sessionVars, histVars,
              driverVars>>
QueueSpecInit ==
    /\ BookInit /\ QueueInit /\ StoreInit /\ ReadersInit
    /\ SessionInit /\ HistInit /\ DriverIdle
QueueNext ==
    \/ EnqueueDisabled /\ UNCHANGED notQueue
    \/ EnqueueBegin /\ UNCHANGED notQueue
    \/ EnqueueLock /\ UNCHANGED notQueue
    \/ EnqueuePopFront /\ UNCHANGED notQueue
    \/ EnqueueLoopExit /\ UNCHANGED notQueue
    \/ EnqueuePushBack /\ UNCHANGED notQueue
    \/ EnqueueUnlock /\ UNCHANGED notQueue
    \/ PgLock /\ UNCHANGED notQueue
    \/ PgWait /\ UNCHANGED notQueue
    \/ PgWake /\ UNCHANGED notQueue
    \/ PgPopFront /\ UNCHANGED notQueue
    \/ PgUnlock /\ UNCHANGED notQueue
    \/ PgWriteSnapshot /\ UNCHANGED notQueue
QueueSpec == QueueSpecInit /\ [][QueueNext]_vars

\* The snapshot store: one publisher, and the readers calling load_snapshot.
notStore == <<bookVars, queueVars, sessionVars, histVars, driverVars>>
StoreNext ==
    \/ \E t \in Slots : PublishBegin(t) /\ UNCHANGED notStore
    \/ PublishBuild /\ UNCHANGED notStore
    \/ PublishLock /\ UNCHANGED notStore
    \/ PublishIndex /\ UNCHANGED notStore
    \/ PublishAssignPtr /\ UNCHANGED notStore
    \/ PublishAssignCtl /\ UNCHANGED notStore
    \/ PublishUnlock /\ UNCHANGED notStore
    \/ \E r \in Readers, t \in Slots : LoadBegin(r, t) /\ UNCHANGED notStore
    \/ \E r \in Readers : LoadLock(r) /\ UNCHANGED notStore
    \/ \E r \in Readers : LoadFind(r) /\ UNCHANGED notStore
    \/ \E r \in Readers : LoadCopyPtr(r) /\ UNCHANGED notStore
    \/ \E r \in Readers : LoadCopyCtl(r) /\ UNCHANGED notStore
    \/ \E r \in Readers : LoadUnlock(r) /\ UNCHANGED notStore
StoreSpec == Init /\ [][StoreNext]_vars

\* One push session and the publisher.  The client's messages set the
\* symbol only: depth_ and push_ms_ enter neither on_tick nor on_write.
\* One recognized and one other type stand for the four (ControlSpec draws
\* them all).
SessionMessages ==
    {m \in Messages : /\ m.type \in {{"subscribe"}, {"ping"}}
                      /\ m.depth = {} /\ m.push_ms = {}}
notSession == <<bookVars, queueVars, readerVars, histVars, driverVars>>
SessionNext ==
    \/ \E t \in Slots : PublishBegin(t) /\ UNCHANGED notStore
    \/ PublishBuild /\ UNCHANGED notStore
    \/ PublishLock /\ UNCHANGED notStore
    \/ PublishIndex /\ UNCHANGED notStore
    \/ PublishAssignPtr /\ UNCHANGED notStore
    \/ PublishAssignCtl /\ UNCHANGED notStore
    \/ PublishUnlock /\ UNCHANGED notStore
    \/ \E ec \in BOOLEAN : OnAccept(ec) /\ UNCHANGED <<notSession, storeVars>>
    \/ \E msg \in SessionMessages :
          OnRead(FALSE, msg) /\ UNCHANGED <<notSession, storeVars>>
    \/ OnRead(TRUE, NoMessage) /\ UNCHANGED <<notSession, storeVars>>
    \/ OnAckWritten /\ UNCHANGED <<notSession, storeVars>>
    \/ OnTick /\ UNCHANGED <<notSession, storeVars>>
    \/ \E ec \in BOOLEAN : OnWrite(ec) /\ UNCHANGED <<notSession, storeVars>>
SessionSpec == Init /\ [][SessionNext]_vars

\* The same, with the io_context running: a timer that was armed fires, a
\* write that was started completes, and a publisher that has entered
\* publish_snapshot leaves it.  Nothing obliges the ingest loop to publish
\* or the client to send.
SessionFairness ==
    /\ WF_vars(OnTick /\ UNCHANGED <<notSession, storeVars>>)
    /\ WF_vars(\E ec \in BOOLEAN :
                  OnWrite(ec) /\ UNCHANGED <<notSession, storeVars>>)
    /\ WF_vars(OnAckWritten /\ UNCHANGED <<notSession, storeVars>>)
    /\ WF_vars((PublishBuild \/ PublishLock \/ PublishIndex
                    \/ PublishAssignPtr \/ PublishAssignCtl \/ PublishUnlock)
                /\ UNCHANGED notStore)
SessionLiveSpec == SessionSpec /\ SessionFairness

\* The control plane of one push session: the server's configured push_ms
\* is any of DefaultPushMs and the client's messages carry any fields.
ControlInit ==
    /\ BookInit /\ QueueStart(FALSE) /\ StoreInit /\ ReadersInit
    /\ (\E default_push_ms \in DefaultPushMs : WsSession(default_push_ms))
    /\ HistInit /\ DriverIdle
ControlNext ==
    \/ \E ec \in BOOLEAN : OnAccept(ec) /\ UNCHANGED <<notSession, storeVars>>
    \/ \E msg \in Messages :
          OnRead(FALSE, msg) /\ UNCHANGED <<notSession, storeVars>>
    \/ OnRead(TRUE, NoMessage) /\ UNCHANGED <<notSession, storeVars>>
    \/ OnAckWritten /\ UNCHANGED <<notSession, storeVars>>
ControlSpec == ControlInit /\ [][ControlNext]_vars

\* The latency histogram: any sequence of add calls.
HistNext ==
    \E ns \in Durations :
        add(ns) /\ UNCHANGED <<bookVars, queueVars, storeVars, readerVars,
                               sessionVars, driverVars>>
HistSpec == Init /\ [][HistNext]_vars

\* The ingest loop: sessions one after the other, each any sequence of lines.
DriverSpecInit ==
    /\ symbol_ = "" /\ bids_ = EmptyMap /\ asks_ = EmptyMap
    /\ index_ = EmptyMap
    /\ QueueInit /\ StoreInit /\ ReadersInit /\ SessionInit /\ HistInit
    /\ DriverInit
notDriver == <<queueVars, storeVars, readerVars, sessionVars, histVars>>
DriverNext ==
    \/ ReadPartial /\ UNCHANGED notDriver
    \/ \E line \in Lines : HandleLine(line) /\ UNCHANGED notDriver
    \/ \E tail \in (IF carry THEN Lines \ {[text |-> "empty", e |-> NoEvent]}
                     ELSE {[text |-> "empty", e |-> NoEvent]}) :
          SessionEnd(tail) /\ UNCHANGED notDriver
    \/ ConnectFails /\ UNCHANGED notDriver
    \/ StartSession /\ UNCHANGED notDriver
DriverSpec == DriverSpecInit /\ [][DriverNext]_vars

(***************************************************************************)
(* Views of a book that do not go through the index.                       *)
(***************************************************************************)
\* The order ids of every level, in FIFO order.
Layout(b) ==
    [bids |-> [p \in DOMAIN b.bids |->
                 [i \in 1..Len(b.bids[p]) |-> b.bids[p][i].order_id]],
     asks |-> [p \in DOMAIN b.asks |->
                 [i \in 1..Len(b.asks[p]) |-> b.asks[p][i].order_id]]]

\* The resting nodes that carry order id `id`.
Resting(b, id) ==
    LET ns == AllNodes(b)
    IN {ns[i] : i \in {j \in 1..Len(ns) : ns[j].order_id = id}}

\* The quantity of the resting order `id` (one node carries it).
RestingQty(b, id) == (CHOOSE n \in Resting(b, id) : TRUE).qty

LevelOf(b, side, px) == IF side = "B" THEN b.bids[px] ELSE b.asks[px]
HasLevel(b, side, px) ==
    IF side = "B" THEN px \in DOMAIN b.bids ELSE px \in DOMAIN b.asks

\* The <<order id, qty>> pairs of the orders other than `id`, level by level.
QtysBut(b, id) ==
    [bids |-> [p \in DOMAIN b.bids |->
                 SelectSeq(b.bids[p], LAMBDA n : n.order_id # id)],
     asks |-> [p \in DOMAIN b.asks |->
                 SelectSeq(b.asks[p], LAMBDA n : n.order_id # id)]]

EventsOf(acts) ==
    [action : acts, side : Sides, price : Prices, size : Sizes,
     order_id : OrderIds]

(***************************************************************************)
(* C1.  Index consistency: after each apply(), every OrderIndex entry      *)
(* refers to a node that is in the level (side, price) the entry records,  *)
(* the node's price is that level's key, and the node rests on the side    *)
(* the entry names (and on no level of the other side).                    *)
(***************************************************************************)
RefConsistent(ref) ==
    LET side == IF ref.is_buy THEN bids_ ELSE asks_
        other == IF ref.is_buy THEN asks_ ELSE bids_
    IN /\ ref.price \in DOMAIN side
       /\ \E i \in 1..Len(side[ref.price]) :
             /\ side[ref.price][i].addr = ref.it
             /\ side[ref.price][i].price = ref.price
       /\ \A p \in DOMAIN other : \A i \in 1..Len(other[p]) :
             other[p][i].addr # ref.it

IndexConsistent == \A id \in DOMAIN index_ : RefConsistent(index_[id])

\* Applied events have filled the index, and one level holds two orders.
IndexConsistentWitness ==
    /\ Cardinality(DOMAIN index_) >= 2
    /\ \/ \E p \in DOMAIN bids_ : Len(bids_[p]) >= 2
       \/ \E p \in DOMAIN asks_ : Len(asks_[p]) >= 2

(***************************************************************************)
(* C2.  No empty levels: after each apply(), every level present on the    *)
(* bid side or the ask side holds at least one order.                      *)
(***************************************************************************)
NoEmptyLevels ==
    /\ \A p \in DOMAIN bids_ : Len(bids_[p]) >= 1
    /\ \A p \in DOMAIN asks_ : Len(asks_[p]) >= 1

\* A level holds exactly one order, and the apply() of a full cancel of that
\* order removes the level.
NoEmptyLevelsWitness ==
    \E e \in EventsOf({"C"}) :
        /\ e.side = "B"
        /\ e.order_id \in DOMAIN index_
        /\ index_[e.order_id].is_buy
        /\ Len(bids_[index_[e.order_id].price]) = 1
        /\ e.size >= RestingQty(Book, e.order_id)
        /\ index_[e.order_id].price \notin DOMAIN apply(Book, e).bids
        /\ DOMAIN asks_ # {}

(***************************************************************************)
(* C3.  FIFO preservation: a cancel whose size is smaller than the resting *)
(* quantity, and a modify at the same price whose size is at most the      *)
(* resting quantity, leave every level's FIFO of order ids as it was and   *)
(* every other order as it was; only the targeted order's quantity changes *)
(* (to qty - size for the cancel, to size for the modify).                 *)
(***************************************************************************)
PartialCancel(b, e) ==
    /\ e.action = "C"
    /\ e.side \in {"A", "B"}
    /\ e.order_id \in DOMAIN b.index
    /\ e.size < RestingQty(b, e.order_id)

SideMatches(b, e) ==
    /\ e.side \in {"A", "B"}
    /\ static_is_buy_side(e.side) = b.index[e.order_id].is_buy

ModifyDown(b, e) ==
    /\ e.action = "M"
    /\ e.order_id \in DOMAIN b.index
    /\ e.price = b.index[e.order_id].price
    /\ e.size <= RestingQty(b, e.order_id)

InPlace(b, r, id, qty) ==
    /\ Layout(r) = Layout(b)
    /\ QtysBut(r, id) = QtysBut(b, id)
    /\ r.index = b.index
    /\ Resting(r, id) = {[n EXCEPT !.qty = qty] : n \in Resting(b, id)}

FifoPreserved ==
    \A e \in EventsOf({"C", "M"}) :
        /\ PartialCancel(Book, e) =>
              InPlace(Book, apply(Book, e), e.order_id,
                      RestingQty(Book, e.order_id) - e.size)
        /\ ModifyDown(Book, e) =>
              InPlace(Book, apply(Book, e), e.order_id,
                      IF SideMatches(Book, e) THEN e.size
                      ELSE RestingQty(Book, e.order_id))

\* A level holds two orders and its head is partially cancelled, or is
\* modified down, and stays the head.
FifoPreservedWitness ==
    \E e \in EventsOf({"C", "M"}) :
        /\ e.size >= 1
        /\ PartialCancel(Book, e) \/ (ModifyDown(Book, e) /\ SideMatches(Book, e))
        /\ LET ref == index_[e.order_id]
               lvl == LevelOf(Book, IF ref.is_buy THEN "B" ELSE "A", ref.price)
               after == LevelOf(apply(Book, e), IF ref.is_buy THEN "B" ELSE "A",
                                ref.price)
           IN /\ Len(lvl) >= 2
              /\ lvl[1].order_id = e.order_id
              /\ after[1].order_id = e.order_id
              /\ after[1].qty < lvl[1].qty

(***************************************************************************)
(* C4.  Priority-loss trigger: a modify of a known order with matching     *)
(* side that changes the price, or keeps the price and increases the size, *)
(* leaves the order as the last element of the FIFO of its destination     *)
(* level (the event's price on the order's side) with the event's size,    *)
(* rests nowhere else, and the index entry refers to that tail node.       *)
(***************************************************************************)
ModifyUp(b, e) ==
    /\ e.action = "M"
    /\ e.order_id \in DOMAIN b.index
    /\ SideMatches(b, e)
    /\ \/ e.price # b.index[e.order_id].price
       \/ e.size > RestingQty(b, e.order_id)

AtTail(r, e) ==
    /\ HasLevel(r, e.side, e.price)
    /\ LET lvl == LevelOf(r, e.side, e.price)
           tail == lvl[Len(lvl)]
       IN /\ tail.order_id = e.order_id
          /\ tail.qty = e.size
          /\ tail.price = e.price
          /\ Resting(r, e.order_id) = {tail}
          /\ e.order_id \in DOMAIN r.index
          /\ r.index[e.order_id] =
                [is_buy |-> static_is_buy_side(e.side), price |-> e.price,
                 it |-> tail.addr]

PriorityLost ==
    \A e \in EventsOf({"M"}) : ModifyUp(Book, e) => AtTail(apply(Book, e), e)

\* The head of a two-order level is modified up at its price and becomes
\* the tail, behind the order that was behind it.
PriorityLostWitness ==
    \E e \in EventsOf({"M"}) :
        /\ ModifyUp(Book, e)
        /\ e.price = index_[e.order_id].price
        /\ LET lvl == LevelOf(Book, e.side, e.price)
               after == LevelOf(apply(Book, e), e.side, e.price)
           IN /\ Len(lvl) = 2
              /\ lvl[1].order_id = e.order_id
              /\ after[1].order_id = lvl[2].order_id
              /\ after[2].order_id = e.order_id

(***************************************************************************)
(* C5.  Reset completeness: an R event, whatever its other fields, leaves  *)
(* the bid side, the ask side and the index empty and the symbol as it     *)
(* was; an A event applied to that book yields a book of exactly one       *)
(* order: one level at the event's price on the event's side, holding the  *)
(* event's order, and one index entry for it.                              *)
(***************************************************************************)
IsReset(b, r) ==
    /\ DOMAIN r.bids = {}
    /\ DOMAIN r.asks = {}
    /\ DOMAIN r.index = {}
    /\ r.symbol = b.symbol

SingleOrder(r, e) ==
    LET mine == IF e.side = "B" THEN r.bids ELSE r.asks
        other == IF e.side = "B" THEN r.asks ELSE r.bids
    IN /\ DOMAIN mine = {e.price}
       /\ DOMAIN other = {}
       /\ Len(mine[e.price]) = 1
       /\ mine[e.price][1].order_id = e.order_id
       /\ mine[e.price][1].price = e.price
       /\ mine[e.price][1].qty = e.size
       /\ DOMAIN r.index = {e.order_id}
       /\ r.index[e.order_id] =
             [is_buy |-> e.side = "B", price |-> e.price,
              it |-> mine[e.price][1].addr]

\* The second conjunct applies A to the book that, by the first, R leaves.
ResetComplete ==
    /\ \A e \in EventsOf({"R"}) :
          LET r == apply(Book, e)
          IN IsReset(Book, r) /\ r = MboOrderBook(symbol_)
    /\ \A a \in EventsOf({"A"}) :
          a.side \in {"A", "B"}
          => SingleOrder(apply(MboOrderBook(symbol_), a), a)

\* A book with orders on both sides and a full index, to which R applies.
ResetCompleteWitness ==
    /\ DOMAIN bids_ # {}
    /\ DOMAIN asks_ # {}
    /\ Cardinality(DOMAIN index_) >= 2
    /\ \E e \in EventsOf({"R"}) : apply(Book, e) # Book

(***************************************************************************)
(* C6.  Ignored events change nothing: an event with action T, F or N, an  *)
(* event whose action is outside {A,C,M,R,T,F,N}, and an A/C/M event whose *)
(* side is neither 'B' nor 'A', leave the symbol, both sides, every FIFO   *)
(* and quantity, and the index as they were.                               *)
(***************************************************************************)
IsIgnored(e) ==
    \/ e.action \in {"T", "F", "N"}
    \/ e.action \notin {"A", "C", "M", "R", "T", "F", "N"}
    \/ (e.action \in {"A", "C", "M"} /\ e.side \notin {"B", "A"})

IgnoredChangeNothing ==
    \A e \in Events : IsIgnored(e) => apply(Book, e) = Book

\* A non-empty book in which an ignored event of each kind names a resting
\* order.
IgnoredChangeNothingWitness ==
    /\ DOMAIN bids_ # {}
    /\ DOMAIN asks_ # {}
    /\ \A act \in {"T", "F", "N", "X", "A", "C", "M"} :
          \E e \in Events :
             /\ e.action = act
             /\ IsIgnored(e)
             /\ e.order_id \in DOMAIN index_

(***************************************************************************)
(* C7.  Backpressure safety: the queue never holds more than max_q items;  *)
(* once more than max_q items have been enqueued since the writer thread   *)
(* last took one (the consumer is stalled) and the enqueue has returned,   *)
(* the queue holds exactly max_q items, and they are the max_q most        *)
(* recently enqueued ones in enqueue order.                                *)
(***************************************************************************)
MostRecent(n) == [i \in 1..n |-> enqueued - n + i]

BackpressureSafe ==
    /\ Len(q) <= max_q
    /\ (enq_pc = "idle" /\ sincePop > max_q) => q = MostRecent(max_q)

\* The writer thread took the first item and is stalled in write_snapshot
\* while more than max_q further items were enqueued.
BackpressureSafeWitness ==
    /\ enq_pc = "idle"
    /\ pg_pc = "write"
    /\ pg_item = 1
    /\ sincePop > max_q
    /\ Len(q) = max_q
    /\ Head(q) > 2

(***************************************************************************)
(* C8.  Snapshot store atomicity: under any interleaving of the publisher  *)
(* and the readers, the shared_ptr a load_snapshot call has returned is    *)
(* not torn and not null, names a completely built string that is the      *)
(* initial "{}" or a string passed to an earlier publish_snapshot, and is  *)
(* a value that was current for the requested slot at the call or became   *)
(* current during it.                                                      *)
(***************************************************************************)
Complete(h) ==
    /\ h \in DOMAIN heap
    /\ heap[h].text = heap[h].s
    /\ \/ h = 0 /\ heap[h].text = DefaultText
       \/ h \in 1..Allocated /\ heap[h].text = SnapshotText(h)

LoadAtomic ==
    \A r \in Readers :
        rd_pc[r] = "done" =>
            /\ rd_ret[r].ptr = rd_ret[r].ctl
            /\ Complete(rd_ret[r].ptr)
            /\ rd_ret[r].ptr \in rd_cur[r]

\* A load for a symbol overlapped the first publish for that symbol and
\* has returned the new value, while a load of the other reader returned
\* the default it fell back to.
LoadAtomicWitness ==
    \E r1, r2 \in Readers :
        /\ rd_pc[r1] = "done" /\ rd_pc[r2] = "done"
        /\ rd_sym[r1] \in StoreSymbols
        /\ rd_cur[r1] = {0, rd_ret[r1].ptr}
        /\ rd_ret[r1].ptr # 0
        /\ rd_sym[r2] \in StoreSymbols
        /\ rd_ret[r2] = SharedPtr(0)

(***************************************************************************)
(* C9 as stated.  Per-session ordering: while the session's symbol stays   *)
(* the same, the snapshots it sends are snapshots published for that       *)
(* symbol, in publication order without repetition.                        *)
(***************************************************************************)
Increasing(seq) == \A i, j \in 1..Len(seq) : i < j => seq[i] < seq[j]

PublishedFor(h, symbol) == h \in 1..Allocated /\ heap[h].target = symbol

SentPublishedForSymbol ==
    /\ Increasing(sent)
    /\ \A i \in 1..Len(sent) : PublishedFor(sent[i], ws_symbol_)

(***************************************************************************)
(* C9 as amended.  While the session's symbol stays the same, the          *)
(* snapshots it sends are, in publication order without repetition, values *)
(* of the default slot (the initial "{}" or a snapshot published without a *)
(* symbol) that are older than every snapshot published for the symbol,    *)
(* followed by snapshots published for the symbol; an older snapshot is    *)
(* never sent after a newer one.                                           *)
(***************************************************************************)
FromDefaultSlot(h) == h = 0 \/ PublishedFor(h, Global)

SentInPublicationOrder ==
    /\ Increasing(sent)
    /\ \A i \in 1..Len(sent) :
          \/ PublishedFor(sent[i], ws_symbol_)
          \/ /\ FromDefaultSlot(sent[i])
             /\ \A x \in 1..Allocated :
                   PublishedFor(x, ws_symbol_) => sent[i] < x

\* The session sent the default "{}", skipped the first snapshot published
\* for its symbol and sent the second.
SentInPublicationOrderWitness ==
    /\ Len(sent) = 2
    /\ sent[1] = 0
    /\ PublishedFor(sent[2], ws_symbol_)
    /\ \E h \in 1..Allocated : h < sent[2] /\ PublishedFor(h, ws_symbol_)

(***************************************************************************)
(* C10.  Duplicate suppression: a tick that loads the handle last_sent_    *)
(* holds sends nothing, and the session never sends the same snapshot      *)
(* handle in two consecutive snapshot sends.                               *)
(***************************************************************************)
TickSendsNothing ==
    (timer_pending /\ ~write_in_flight_ /\ CanLockShared
       /\ last_sent_.ptr # Null
       /\ load_snapshot(ws_symbol_).ptr = last_sent_.ptr)
    => (OnTick => UNCHANGED <<wire, sent, snap_pending, last_sent_>>)

NoDuplicateSend ==
    /\ [][TickSendsNothing]_vars
    /\ [](wire[2] # Null => wire[1] # wire[2])

\* Two snapshots were sent, the write has completed, and a tick now loads
\* the handle that was sent last.
NoDuplicateSendWitness ==
    /\ wire[1] # Null
    /\ wire[2] # Null
    /\ timer_pending
    /\ ~write_in_flight_
    /\ CanLockShared
    /\ load_snapshot(ws_symbol_).ptr = last_sent_.ptr
    /\ wire[2] = last_sent_.ptr

(***************************************************************************)
(* C11.  Write coordination: on the session's socket at most one write     *)
(* operation (the snapshot's async_write or an acknowledgment's            *)
(* async_write) is outstanding at any time.                                *)
(***************************************************************************)
WritesOutstanding == (IF snap_pending THEN 1 ELSE 0) + acks_pending

OneWriteOutstanding == WritesOutstanding <= 1

(***************************************************************************)
(* C12.  Histogram percentile: with n >= 1 samples and 0 < p <= 1,         *)
(* percentile(p) is 2^(b+1) for the bucket b (2^b <= sample < 2^(b+1),     *)
(* bucket 0 for a sample of 0) that holds the ceil(p*n)-th smallest        *)
(* sample.                                                                 *)
(***************************************************************************)
\* The j-th smallest of the samples added.
Smallest(j) ==
    CHOOSE v \in Durations :
        /\ Cardinality({i \in 1..Len(samples) : samples[i] <= v}) >= j
        /\ Cardinality({i \in 1..Len(samples) : samples[i] < v}) < j

BucketOf(v) ==
    IF v = 0 THEN 0
    ELSE CHOOSE b \in 0..(K - 1) : Pow2(b) <= v /\ v < Pow2(b + 1)

\* ceil(k * cnt / 4)
CeilQuarters(k, cnt) == (k * cnt + 3) \div 4

PercentileIsCeilRank ==
    \A k \in 1..4 :
        hist_n >= 1 =>
            percentile(hist_c, hist_n, k) =
                Pow2(BucketOf(Smallest(CeilQuarters(k, hist_n))) + 1)

(***************************************************************************)
(* C13.  Histogram monotonicity: for any histogram contents and any        *)
(* p1 <= p2 (also outside [0, 1]), percentile(p1) <= percentile(p2).       *)
(***************************************************************************)
PercentileMonotone ==
    \A k1, k2 \in Quarters :
        k1 <= k2 =>
            percentile(hist_c, hist_n, k1) <= percentile(hist_c, hist_n, k2)

\* Samples in three buckets: the quantiles 1/4, 3/4 and 1 give three
\* different results, in increasing order.
PercentileMonotoneWitness ==
    /\ hist_n = 3
    /\ percentile(hist_c, hist_n, 1) < percentile(hist_c, hist_n, 3)
    /\ percentile(hist_c, hist_n, 3) < percentile(hist_c, hist_n, 4)

(***************************************************************************)
(* C14.  After every applied event, no price is a level key on both the    *)
(* bid side and the ask side at the same time.                             *)
(***************************************************************************)
NoPriceOnBothSides == DOMAIN bids_ \cap DOMAIN asks_ = {}

(***************************************************************************)
(* C15.  The index tracks resting orders one-for-one: after every applied  *)
(* event every resting order has an index entry keyed by its order id that *)
(* refers to it, every index entry has exactly one resting order with its  *)
(* id, and no order id rests in the book more than once.                   *)
(***************************************************************************)
IndexOneForOne ==
    LET ns == AllNodes(Book)
    IN /\ \A i \in 1..Len(ns) :
             /\ ns[i].order_id \in DOMAIN index_
             /\ index_[ns[i].order_id].it = ns[i].addr
       /\ \A id \in DOMAIN index_ : Cardinality(Resting(Book, id)) = 1
       /\ \A i, j \in 1..Len(ns) : ns[i].order_id = ns[j].order_id => i = j
       /\ Len(ns) = Cardinality(DOMAIN index_)

\* Two orders rest, and an add that reuses the id of one of them at another
\* price or on the other side moves that order instead of adding a third.
IndexOneForOneWitness ==
    /\ Cardinality(DOMAIN index_) = 2
    /\ \E e \in EventsOf({"A"}) :
          /\ e.side \in {"A", "B"}
          /\ e.order_id \in DOMAIN index_
          /\ \/ index_[e.order_id].price # e.price
             \/ index_[e.order_id].is_buy # (e.side = "B")
          /\ LET r == apply(Book, e)
             IN /\ Len(AllNodes(r)) = 2
                /\ r.index[e.order_id].price = e.price
                /\ r.index[e.order_id].is_buy = (e.side = "B")
(***************************************************************************)
(* C16.  Events are applied strictly in arrival order: at any point in an  *)
(* ingest session the book equals the result of applying, in arrival       *)
(* order, every successfully parsed event received so far in that session  *)
(* to an initially empty book, including the events received before the    *)
(* book's symbol was first observed.                                       *)
(***************************************************************************)
BookEqualsFold ==
    /\ bids_ = folded.bids
    /\ asks_ = folded.asks
    /\ index_ = folded.index

(***************************************************************************)
(* C17.  to_json(depth) emits, for each side, the first min(depth, number  *)
(* of levels) levels in book order (bids strictly descending by price,     *)
(* asks strictly ascending), and for each emitted level sz is the sum of   *)
(* the quantities of all orders in that level and ct is the number of      *)
(* orders in it.                                                           *)
(***************************************************************************)
Depths == {0, 1, 2, 3}

\* The quantity of a level, counted one lot at a time.
Lots(level) ==
    Cardinality({x \in (1..Len(level)) \X Sizes :
                    1 <= x[2] /\ x[2] <= level[x[1]].qty})

\* The levels `out` are the n best of `side`, better(p, r) saying that
\* price p comes before price r, each with its level's lots and orders.
BestLevels(out, side, n, better(_, _)) ==
    /\ Len(out) = n
    /\ \A i \in 1..Len(out) :
          /\ out[i].px \in DOMAIN side
          /\ Cardinality({p \in DOMAIN side : better(p, out[i].px)}) = i - 1
          /\ out[i].sz = Lots(side[out[i].px])
          /\ out[i].ct = Len(side[out[i].px])
    /\ \A i, k \in 1..Len(out) : i < k => better(out[i].px, out[k].px)

CapAt(depth, levels) == IF depth < levels THEN depth ELSE levels

ToJsonBestLevels ==
    \A depth \in Depths :
        LET json == to_json(Book, depth)
        IN /\ BestLevels(json.bids, bids_,
                         CapAt(depth, Cardinality(DOMAIN bids_)),
                         LAMBDA p, r : p > r)
           /\ BestLevels(json.asks, asks_,
                         CapAt(depth, Cardinality(DOMAIN asks_)),
                         LAMBDA p, r : p < r)

\* Two bid levels, the better one of two lots: depth 1 emits the better
\* level only, depth 2 both.
ToJsonBestLevelsWitness ==
    /\ DOMAIN bids_ = {1, 2}
    /\ Len(to_json(Book, 1).bids) = 1
    /\ to_json(Book, 1).bids[1].px = 2
    /\ to_json(Book, 1).bids[1].sz = 2
    /\ Len(to_json(Book, 2).bids) = 2

(***************************************************************************)
(* C18.  top_of_book(): has_bid (has_ask) is true exactly when the bid     *)
(* (ask) side is non-empty; the reported price is the best level's key     *)
(* (highest bid, lowest ask) and the size is the sum of the quantities of  *)
(* all orders at that level; mid and spread are populated only when both   *)
(* sides are present and are zero otherwise.  Prices, mid and spread are   *)
(* compared in half ticks.                                                 *)
(***************************************************************************)
Highest(keys) == CHOOSE p \in keys : \A r \in keys : r <= p
Lowest(keys) == CHOOSE p \in keys : \A r \in keys : p <= r

TopOfBookBest ==
    LET t == top_of_book(Book)
    IN /\ t.has_bid <=> DOMAIN bids_ # {}
       /\ t.has_ask <=> DOMAIN asks_ # {}
       /\ DOMAIN bids_ # {} =>
             /\ t.bid_px = Highest(DOMAIN bids_) + Highest(DOMAIN bids_)
             /\ t.bid_sz = Lots(bids_[Highest(DOMAIN bids_)])
       /\ DOMAIN asks_ # {} =>
             /\ t.ask_px = Lowest(DOMAIN asks_) + Lowest(DOMAIN asks_)
             /\ t.ask_sz = Lots(asks_[Lowest(DOMAIN asks_)])
       /\ IF DOMAIN bids_ # {} /\ DOMAIN asks_ # {}
          THEN /\ t.mid = Highest(DOMAIN bids_) + Lowest(DOMAIN asks_)
               /\ t.spread + t.bid_px = t.ask_px
          ELSE t.mid = 0 /\ t.spread = 0

\* A bid of two lots at price 1 under an ask at price 2: mid is 1.5 ticks,
\* the spread one tick.
TopOfBookBestWitness ==
    /\ DOMAIN bids_ = {1} /\ DOMAIN asks_ = {2}
    /\ top_of_book(Book).bid_sz = 2
    /\ top_of_book(Book).mid = 3
    /\ top_of_book(Book).spread = 2

(***************************************************************************)
(* C19.  Readers of the snapshot store never block the publisher or each   *)
(* other: a publish_snapshot call that has reached its lock can take it    *)
(* however many load_snapshot calls hold theirs, and a load_snapshot call  *)
(* that has reached its lock can take it whatever the other loads do (the  *)
(* publisher alone may make it wait).                                      *)
(***************************************************************************)
ReadersBlockNobody ==
    /\ pub_pc = "lock" /\ ~g_mtx.writer => CanLock
    /\ \A r \in Readers : rd_pc[r] = "lock" /\ ~g_mtx.writer => CanLockShared

(***************************************************************************)
(* C20.  Pointer-equal reads: two load_snapshot calls for the same symbol  *)
(* with no publish between them return the identical handle, and a load    *)
(* after a publish for that symbol returns a handle different from every   *)
(* handle returned before that publish.  A call is placed at the moment it *)
(* takes its lock.                                                         *)
(***************************************************************************)
Returned(r) == rd_pc[r] = "done"

\* A snapshot was published for slot t after call r and before call s.
PublishedBetween(t, r, s) ==
    \E h \in 1..Installed :
        heap[h].target = t /\ rd_epoch[r] < h /\ h <= rd_epoch[s]

PointerEqualReads ==
    \A r, s \in Readers :
        Returned(r) /\ Returned(s) =>
            /\ rd_sym[r] = rd_sym[s] /\ rd_epoch[r] = rd_epoch[s]
                  => rd_ret[r] = rd_ret[s]
            /\ PublishedBetween(rd_sym[s], r, s)
                  => rd_ret[s].ptr # rd_ret[r].ptr

\* Two calls for one symbol with a publish for that symbol between them:
\* the first returned the first snapshot, the second the second.
PointerEqualReadsWitness ==
    /\ Returned("r1") /\ Returned("r2")
    /\ rd_sym["r1"] = "CLX5" /\ rd_sym["r2"] = "CLX5"
    /\ PublishedBetween("CLX5", "r1", "r2")
    /\ rd_ret["r1"].ptr = 1 /\ rd_ret["r2"].ptr = 2

(***************************************************************************)
(* C21.  Published snapshots are monotone in processed count: over the     *)
(* life of the process, the processed count at which a snapshot is         *)
(* published is never smaller than the count at which the snapshot before  *)
(* it was published.                                                       *)
(***************************************************************************)
PublishedCountMonotone ==
    [][fanout'.n # fanout.n => fanout'.count >= fanout.count]_vars

(***************************************************************************)
(* C22.  Session parameter bounds: in every reachable session state, from  *)
(* creation on and after any sequence of control messages, depth is within *)
(* [1, 200] and push_ms is within [10, 5000].                              *)
(***************************************************************************)
SessionParamsBounded ==
    /\ 1 <= depth_ /\ depth_ <= 200
    /\ 10 <= push_ms_ /\ push_ms_ <= 5000

(***************************************************************************)
(* C23.  Control-message handling: a received message whose type is        *)
(* subscribe or update causes exactly one ack frame, carrying the          *)
(* session's symbol, depth and push_ms as they are after the message was   *)
(* applied; a message with a missing or any other type changes no session  *)
(* state and causes no ack.                                                *)
(***************************************************************************)
AckPerControlMessage ==
    [][\A msg \in SessionMessages :
          OnRead(FALSE, msg) =>
              IF Recognized(msg)
              THEN /\ acks_pending' = acks_pending + 1
                   /\ ack_out' = {make_ack_json(ws_symbol_', depth_', push_ms_')}
              ELSE UNCHANGED sessionVars]_vars

(***************************************************************************)
(* C24.  A closed client terminates the session: after the session's read  *)
(* has completed with a close or an error, the session eventually reaches  *)
(* the closed state, in which no timer tick is scheduled and no snapshot   *)
(* is loaded or written any more, even if no new snapshot is ever          *)
(* published.                                                              *)
(***************************************************************************)
ReadEnded == ~accept_pending /\ ~read_pending
Closed == ~timer_pending /\ ~snap_pending

ClosedClientTerminates == ReadEnded ~> []Closed

(***************************************************************************)
(* C25.  A write failure terminates the session: after a snapshot write    *)
(* to the subscriber has completed with an error, the session sends        *)
(* nothing further, neither snapshots nor acks, and schedules no further   *)
(* tick.                                                                   *)
(***************************************************************************)
\* A snapshot was written, no write is in flight and no tick is scheduled:
\* on_write got an error (on success it schedules the next tick).
WriteFailed ==
    /\ ~accept_pending /\ ~timer_pending /\ ~snap_pending
    /\ last_sent_ # SharedPtr(Null)

WriteFailureTerminates ==
    [][WriteFailed => /\ ~snap_pending' /\ ~timer_pending'
                      /\ acks_pending' <= acks_pending
                      /\ ack_out' = ack_out /\ Len(sent') <= Len(sent)]_vars

(***************************************************************************)
(* C26.  Final forced fan-out: when the ingest stream ends and at least    *)
(* one event was processed, exactly one extra fan-out is performed if the  *)
(* processed count is not a multiple of snapshot_every (none if it is), so *)
(* that after every session end the snapshot published last, under the    *)
(* book's symbol, is to_json(depth) of the final book and was taken at the *)
(* final processed count.                                                  *)
(***************************************************************************)
\* The stream ended in this step.
StreamEnds == ingest_pc = "reading" /\ ingest_pc' = "ended"

\* Fan-outs made by the handling of the trailing line, if it held an event.
TailFanouts ==
    IF processed' > processed /\ SnapshotDue(processed') THEN 1 ELSE 0

FinalForcedFanout ==
    [][StreamEnds /\ processed' > 0 =>
          /\ fanout'.n = fanout.n + TailFanouts
                         + (IF SnapshotDue(processed') THEN 0 ELSE 1)
          /\ fanout'.count = processed'
          /\ fanout'.publish =
                 <<IF book_symbol' # "" THEN book_symbol' ELSE Global,
                   to_json(Book', cfg.depth)>>]_vars

\* A session has ended off a snapshot boundary, after a periodic fan-out,
\* and the forced fan-out has published a book with a level in it.
FinalForcedFanoutWitness ==
    /\ ingest_pc = "ended"
    /\ cfg.snapshot_every = 2 /\ processed = 3
    /\ fanout.n = 2 /\ fanout.count = 3
    /\ fanout.publish[1] = "CLX5"
    /\ fanout.publish[2].bids # << >>

(***************************************************************************)
(* C27.  Fan-out delivery conditions: every fan-out publishes exactly one  *)
(* snapshot string to the store; it enqueues one item to the persistent    *)
(* writer exactly when the writer is enabled, the symbol is known and      *)
(* ts_us > 0; it writes one feed line exactly when the feed log is open,   *)
(* the symbol is known and ts_us > 0; the feed line's book is the          *)
(* published string, and both are serialized from the book state whose top *)
(* of book is enqueued.                                                    *)
(***************************************************************************)
FanoutDelivery ==
    [][fanout'.n # fanout.n =>
          LET known == book_symbol' # "" /\ last_ts_us' > 0
          IN /\ fanout'.n = fanout.n + 1
             /\ Len(fanout'.publish) = 2
             /\ fanout'.publish[2] = to_json(Book', cfg.depth)
             /\ Cardinality(fanout'.enqueue) = IF pg /\ known THEN 1 ELSE 0
             /\ Cardinality(fanout'.feed) = IF feed_ptr /\ known THEN 1 ELSE 0
             /\ \A item \in fanout'.enqueue :
                   /\ item.tob = top_of_book(Book')
                   /\ item.ts_us = last_ts_us'
                   /\ item.symbol = book_symbol'
             /\ \A line \in fanout'.feed :
                   /\ line.book_json = fanout'.publish[2]
                   /\ line.symbol = book_symbol']_vars

\* With the writer enabled and no feed log open, a fan-out for a known
\* symbol and timestamp has published a book with a bid and enqueued its
\* top of book, and has written no feed line.
FanoutDeliveryWitness ==
    /\ pg /\ ~feed_ptr /\ fanout.n > 0
    /\ fanout.publish[1] = "CLX5"
    /\ fanout.publish[2].bids # << >>
    /\ \E item \in fanout.enqueue : item.tob.has_bid
    /\ fanout.feed = {}

(***************************************************************************)
(* C28.  On ingress disconnect (end of stream or read error) an            *)
(* unterminated partial line left in the framer's buffer is dropped: it is *)
(* neither parsed nor applied to the book nor counted as processed, and    *)
(* the next session starts with an empty buffer.                           *)
(***************************************************************************)
PartialLineDropped ==
    [][/\ StreamEnds /\ carry =>
              /\ Book' = Book
              /\ processed' = processed
              /\ parsed_ok' = parsed_ok
       /\ ingest_pc # "reading" /\ ingest_pc' = "reading" => ~carry']_vars

(***************************************************************************)
(* C29.  Parse failure is drop-and-continue: an empty line, a header line  *)
(* or a line that fails validation leaves the book, the processed count    *)
(* and the last event timestamp unchanged and triggers no fan-out, and the *)
(* session goes on reading the lines that follow.                          *)
(***************************************************************************)
Dropped(line) == line.text \in {"empty", "header", "invalid"}

ParseFailureDrops ==
    [][\A line \in Lines :
          Dropped(line) /\ HandleLine(line) =>
              /\ Book' = Book
              /\ processed' = processed
              /\ parsed_ok' = parsed_ok
              /\ last_ts_us' = last_ts_us
              /\ fanout' = fanout
              /\ ingest_pc' = "reading"]_vars

\* A session that has handled one line that parsed and one that failed
\* validation, and is still reading.
ParseFailureDropsWitness ==
    /\ ingest_pc = "reading"
    /\ lines_total = 2 /\ parsed_ok = 1 /\ processed = 1
    /\ bids_ # EmptyMap
    /\ last_ts_us = 1

(***************************************************************************)
(* C30.  When a side (bid or ask) is absent in the TopOfBook being         *)
(* persisted, the four columns that depend on it (that side's price, that  *)
(* side's size, mid and spread) are written as absent (NULL) values, not   *)
(* as zeros.                                                               *)
(***************************************************************************)
AbsentSideColumnsNull ==
    LET tob == top_of_book(Book)
        row == write_snapshot(1, symbol_, tob)
    IN /\ ~tob.has_bid =>
              /\ row.best_bid_px = {} /\ row.best_bid_sz = {}
              /\ row.mid = {} /\ row.spread = {}
       /\ ~tob.has_ask =>
              /\ row.best_ask_px = {} /\ row.best_ask_sz = {}
              /\ row.mid = {} /\ row.spread = {}

(***************************************************************************)
(* C31.  Reconnect loop: after every failed connection attempt and after   *)
(* every ingest session end (end of stream or read error) the driver makes *)
(* another connection attempt, and it waits 2 seconds before that attempt. *)
(* Here: a session is entered from outside a session only after the wait.  *)
(***************************************************************************)
RetryAfterWait ==
    [][ingest_pc # "reading" /\ ingest_pc' = "reading" =>
          ingest_pc = "slept"]_vars

(***************************************************************************)
(* C32.  Serial FIFO drain: under any interleaving of the ingest producer  *)
(* and the single writer worker, every enqueued item is handed to          *)
(* write_snapshot at most once (it is discarded otherwise), items are      *)
(* written in enqueue order, and the producer's enqueue never waits for    *)
(* the consumer.                                                           *)
(***************************************************************************)
\* The items written so far are enqueued items, in enqueue order, each
\* written once.
WrittenInOrderOnce ==
    /\ Increasing(written)
    /\ \A i \in 1..Len(written) : written[i] \in 1..enqueued

\* The enqueue is not at its lock while the writer thread holds the mutex.
ProducerNeverWaits == ~(enq_pc = "lock" /\ q_mtx = "pg_thread")

OthersAt(b, id) ==
    [s \in {"B", "A"} |->
        [p \in Prices |->
            IF HasLevel(b, s, p)
            THEN SelectSeq(LevelOf(b, s, p), LAMBDA n : n.order_id # id)
            ELSE << >>]]

OthersKept(b, r, e) ==
    /\ OthersAt(r, e.order_id) = OthersAt(b, e.order_id)
    /\ \A s \in {"B", "A"} : \A p \in Prices :
          HasLevel(r, s, p) <=>
              \/ OthersAt(b, e.order_id)[s][p] # << >>
              \/ (s = e.side /\ p = e.price)
    /\ DOMAIN r.index = DOMAIN b.index \cup {e.order_id}
    /\ \A k \in DOMAIN b.index \ {e.order_id} : r.index[k] = b.index[k]

AddSemantics ==
    \A e \in EventsOf({"A"}) :
        e.side \in {"A", "B"} =>
            LET r == apply(Book, e)
            IN AtTail(r, e) /\ OthersKept(Book, r, e) /\ r.symbol = symbol_

\* An order resting alone on a bid level is added again under its id at
\* another bid price where another order rests: its old level goes, and it
\* becomes the second order of the other level.
AddSemanticsWitness ==
    \E e \in EventsOf({"A"}) :
        /\ e.side = "B"
        /\ e.order_id \in DOMAIN index_
        /\ index_[e.order_id].is_buy
        /\ index_[e.order_id].price # e.price
        /\ Len(bids_[index_[e.order_id].price]) = 1
        /\ HasLevel(Book, "B", e.price)
        /\ LET r == apply(Book, e)
           IN /\ ~HasLevel(r, "B", index_[e.order_id].price)
              /\ Len(r.bids[e.price]) = 2
              /\ r.bids[e.price][2].order_id = e.order_id

(***************************************************************************)
(* C34.  Full cancel with clamp: a C event for a known order id whose size *)
(* is greater than or equal to the order's resting quantity removes the    *)
(* order (it rests nowhere afterwards), erases its index entry, and        *)
(* deletes its level if no other order rests there; no cancel leaves an    *)
(* order with a negative quantity.                                         *)
(***************************************************************************)
FullCancel(b, e) ==
    /\ e.action = "C"
    /\ e.side \in {"A", "B"}
    /\ e.order_id \in DOMAIN b.index
    /\ e.size >= RestingQty(b, e.order_id)

Removed(b, r, id) ==
    /\ Resting(r, id) = {}
    /\ DOMAIN r.index = DOMAIN b.index \ {id}
    /\ \A k \in DOMAIN r.index : r.index[k] = b.index[k]
    /\ OthersAt(r, id) = OthersAt(b, id)
    /\ \A s \in {"B", "A"} : \A p \in Prices :
          HasLevel(r, s, p) <=> OthersAt(b, id)[s][p] # << >>

NoNegativeQty(r) ==
    \A i \in 1..Len(AllNodes(r)) : AllNodes(r)[i].qty >= 0

FullCancelRemoves ==
    \A e \in EventsOf({"C"}) :
        /\ FullCancel(Book, e) => Removed(Book, apply(Book, e), e.order_id)
        /\ NoNegativeQty(apply(Book, e))

\* An order of quantity 1 resting alone on its level is cancelled with
\* size 2 while an order rests on the other side: the level goes.
FullCancelRemovesWitness ==
    \E e \in EventsOf({"C"}) :
        /\ FullCancel(Book, e)
        /\ e.size = 2
        /\ RestingQty(Book, e.order_id) = 1
        /\ index_[e.order_id].is_buy
        /\ Len(bids_[index_[e.order_id].price]) = 1
        /\ DOMAIN asks_ # {}
        /\ DOMAIN apply(Book, e).bids = {}
        /\ DOMAIN apply(Book, e).asks = DOMAIN asks_

(***************************************************************************)
(* C35.  Modify of an unknown order id is an add: applying an M event      *)
(* whose order id is not in the index yields exactly the book that         *)
(* applying the A event with the same side, price, size and order id       *)
(* yields.                                                                 *)
(***************************************************************************)
AsAdd(e) == [e EXCEPT !.action = "A"]

ModifyUnknownIsAdd ==
    \A e \in EventsOf({"M"}) :
        e.order_id \notin DOMAIN index_ =>
            apply(Book, e) = apply(Book, AsAdd(e))

\* A book with one order, to which an M event for the other id applies at
\* the resting order's level: the new order becomes the second of the level.
ModifyUnknownIsAddWitness ==
    \E e \in EventsOf({"M"}) :
        /\ e.order_id \notin DOMAIN index_
        /\ e.side = "A"
        /\ e.size = 2
        /\ HasLevel(Book, "A", e.price)
        /\ LET r == apply(Book, e)
           IN /\ Len(r.asks[e.price]) = 2
              /\ r.asks[e.price][2].order_id = e.order_id
              /\ r.asks[e.price][2].qty = 2
              /\ e.order_id \in DOMAIN r.index

(***************************************************************************)
(* C36.  Defensive drops: a C event whose order id is not in the index,    *)
(* and an M event for a known order id whose side differs from the side    *)
(* the index records for the order, leave the symbol, both sides, every    *)
(* FIFO and quantity, and the index as they were.                          *)
(***************************************************************************)
RecordedSide(b, id) == IF b.index[id].is_buy THEN "B" ELSE "A"

IsDefensiveDrop(b, e) ==
    \/ e.action = "C" /\ e.order_id \notin DOMAIN b.index
    \/ /\ e.action = "M"
       /\ e.order_id \in DOMAIN b.index
       /\ e.side # RecordedSide(b, e.order_id)

DefensiveDrops ==
    \A e \in EventsOf({"C", "M"}) :
        IsDefensiveDrop(Book, e) => apply(Book, e) = Book

\* A bid rests at price 1 with quantity 1 and nothing else: a C event names
\* the other id, and an M event names the bid with side A, another price
\* and a larger size.
DefensiveDropsWitness ==
    /\ DOMAIN bids_ = {1}
    /\ DOMAIN asks_ = {}
    /\ Len(bids_[1]) = 1
    /\ bids_[1][1].qty = 1
    /\ \E c \in EventsOf({"C"}) :
          /\ IsDefensiveDrop(Book, c) /\ c.side = "B" /\ c.size = 1
    /\ \E e \in EventsOf({"M"}) :
          /\ IsDefensiveDrop(Book, e)
          /\ e.side = "A" /\ e.price = 2 /\ e.size = 2
          /\ e.order_id = bids_[1][1].order_id

(***************************************************************************)
(* C37.  Fan-out cadence: with snapshot_every = N > 0, a step of           *)
(* handle_line makes a fan-out exactly when it advances the count of       *)
(* applied events to a multiple of N, and it makes at most one; a line     *)
(* that is dropped, and an event the engine ignores, leave the count and   *)
(* the record of fan-outs as they were.                                    *)
(***************************************************************************)
IgnoredByEngine(line) == line.text = "event" /\ IsIgnored(line.e)

FanoutCadence ==
    [][\A line \in Lines :
          HandleLine(line) =>
              /\ Dropped(line) \/ IgnoredByEngine(line) =>
                     processed' = processed /\ fanout' = fanout
              /\ fanout'.n \in {fanout.n, fanout.n + 1}
              /\ fanout'.n # fanout.n <=>
                     /\ processed' = processed + 1
                     /\ SnapshotDue(processed')]_vars

(***************************************************************************)
(* C38.  Every order resting in the book has a strictly positive quantity  *)
(* after any sequence of applied events, events of size 0 included, and    *)
(* every level that to_json emits has sz >= ct >= 1.                       *)
(***************************************************************************)
EmittedLevels(b) ==
    LET json == to_json(b, Cardinality(Prices))
        out == json.bids \o json.asks
    IN {out[i] : i \in 1..Len(out)}

PositiveQuantities ==
    /\ \A i \in 1..Len(AllNodes(Book)) : AllNodes(Book)[i].qty > 0
    /\ \A lvl \in EmittedLevels(Book) : lvl.sz >= lvl.ct /\ lvl.ct >= 1

(***************************************************************************)
(* C39.  Tick-chain integrity: a successful accept arms the timer; from    *)
(* then on exactly one of a timer wait and a snapshot write is pending,    *)
(* until a snapshot write completes with an error and leaves neither.  The *)
(* timer is armed only when no wait is pending (never two waits), no wait  *)
(* is pending while a snapshot write is in flight (so no tick fires during *)
(* one), and a tick that starts no write leaves the timer armed.           *)
(***************************************************************************)
\* Exactly one of the timer wait and the snapshot write is pending.
OnePending == timer_pending # snap_pending

TickChainIntegrity ==
    [][/\ accept_pending /\ ~accept_pending' /\ read_pending' =>
              ~timer_pending /\ timer_pending' /\ ~snap_pending'
       /\ OnePending =>
              \/ (timer_pending' # snap_pending')
              \/ snap_pending /\ ~snap_pending' /\ ~timer_pending'
       /\ ~(timer_pending' /\ (snap_pending' \/ write_in_flight_'))
       /\ snap_pending /\ ~snap_pending' /\ timer_pending' => ~timer_pending
       /\ timer_pending /\ ~snap_pending /\ ~snap_pending' => timer_pending'
      ]_vars

\* The chain went round once: a second snapshot write is in flight, started
\* by a tick that the first write's completion had armed.
TickChainIntegrityWitness ==
    /\ ~accept_pending
    /\ snap_pending
    /\ ~timer_pending
    /\ Len(sent) = 2
    /\ wire[1] # Null

(***************************************************************************)
(* C40.  A cancel never increases resting liquidity: for every C event the *)
(* parser accepts (sizes of zero and below included) that names a known    *)
(* order, the order's resting quantity afterwards is at most its quantity  *)
(* before, and every other order keeps its quantity.                       *)
(***************************************************************************)
\* The sizes parse_int<int32_t> accepts, below zero included.
SignedSizes == Sizes \cup {0 - 1}

SignedCancels ==
    [action : {"C"}, side : {"B", "A"}, price : Prices, size : SignedSizes,
     order_id : OrderIds]

CancelNeverIncreases ==
    \A e \in SignedCancels :
        e.order_id \in DOMAIN index_ =>
            LET r == apply(Book, e)
            IN /\ \A n \in Resting(r, e.order_id) :
                      n.qty <= RestingQty(Book, e.order_id)
               /\ OthersAt(r, e.order_id) = OthersAt(Book, e.order_id)

====
